---- MODULE Spec2Model ----
(***************************************************************************)
(* Model of the event store (backend/storage.py), of the HTTP routes that  *)
(* call it (backend/app.py) and of the facial expression recognizer        *)
(* (backend/facial_expression.py).                                         *)
(*                                                                         *)
(* Conventions:                                                            *)
(*   - a Python string is a sequence of one-character strings;             *)
(*   - a Python dict is a record (a function on its keys);                 *)
(*   - a confidence is an integer number of hundredths (92 is 0.92);       *)
(*   - a coordinate or a distance is an integer number of thousandths;     *)
(*   - an exception is the name of its class, "none" when nothing raised.  *)
(***************************************************************************)
EXTENDS Integers, Sequences, FiniteSets, TLC

(***************************************************************************)
(* Bounds of the model.                                                    *)
(***************************************************************************)
MaxInserts == 2
MaxClock == 1
MaxFrames == 2

(***************************************************************************)
(* Strings.                                                                *)
(***************************************************************************)
Alphabet == <<" ", "0", "1", "2", "3", "4", "5", "6", "7", "8", "9",
              "A", "B", "C", "D", "E", "F", "H", "N", "Y", "Z", "_",
              "a", "b", "c", "d", "e", "f", "i", "k", "m", "n", "o", "p", "s", "y">>

Ord(c) == CHOOSE i \in 1..Len(Alphabet) : Alphabet[i] = c

Digit(n) == Alphabet[n + 2]

RECURSIVE StrLess(_, _)
\* a < b for Python / BSON strings: lexicographic on the characters.
StrLess(a, b) ==
    IF b = <<>> THEN FALSE
    ELSE IF a = <<>> THEN TRUE
    ELSE IF Head(a) # Head(b) THEN Ord(Head(a)) < Ord(Head(b))
    ELSE StrLess(Tail(a), Tail(b))

RECURSIVE strip(_)
RECURSIVE rstrip(_)
rstrip(s) == IF s # <<>> /\ s[Len(s)] = " " THEN rstrip(SubSeq(s, 1, Len(s) - 1)) ELSE s
strip(s) == IF s # <<>> /\ Head(s) = " " THEN strip(Tail(s)) ELSE rstrip(s)

S_Hello == <<"H", "i">>
S_Yes == <<"Y", "e", "s">>
S_Happy == <<"H", "a", "p", "p", "y">>
S_Blank == <<" ">>
S_Empty == <<>>
S_None == <<"N", "o", "n", "e">>
S_mock_id == <<"m", "o", "c", "k", "_", "i", "d">>

(***************************************************************************)
(* Time: datetime.now(timezone.utc).isoformat() renders the clock in a     *)
(* fixed-width format, so later instants give greater strings.             *)
(***************************************************************************)
isoformat(t) == <<Digit(t \div 10), Digit(t % 10)>>

(***************************************************************************)
(* Exceptions: the class hierarchy of the classes the store can meet.      *)
(***************************************************************************)
ExcParent ==
    [OperationFailure |-> "PyMongoError",
     ServerSelectionTimeoutError |-> "AutoReconnect",
     AutoReconnect |-> "ConnectionFailure",
     ConnectionFailure |-> "PyMongoError",
     InvalidOperation |-> "PyMongoError",
     PyMongoError |-> "Exception",
     RuntimeError |-> "Exception",
     IndexError |-> "LookupError",
     LookupError |-> "Exception",
     AttributeError |-> "Exception",
     TypeError |-> "Exception",
     ValueError |-> "Exception",
     NotFittedError |-> "ValueError",
     UnpicklingError |-> "PickleError",
     PickleError |-> "Exception",
     PermissionError |-> "OSError",
     OSError |-> "Exception",
     RequestException |-> "OSError",
     ConnectionError |-> "RequestException",
     ZeroDivisionError |-> "ArithmeticError",
     ArithmeticError |-> "Exception",
     KeyboardInterrupt |-> "BaseException",
     Exception |-> "BaseException"]

RECURSIVE IsInstance(_, _)
\* isinstance(exc, cls)
IsInstance(exc, cls) ==
    IF exc = cls THEN TRUE
    ELSE IF exc \in DOMAIN ExcParent THEN IsInstance(ExcParent[exc], cls)
    ELSE FALSE

\* The except clause of `handlers` (in textual order) that catches exc, 0 if
\* none does and the exception leaves the try statement.
ExceptClause(handlers, exc) ==
    IF \E i \in 1..Len(handlers) : IsInstance(exc, handlers[i])
    THEN CHOOSE i \in 1..Len(handlers) :
            /\ IsInstance(exc, handlers[i])
            /\ \A j \in 1..(i - 1) : ~IsInstance(exc, handlers[j])
    ELSE 0

\* What a call to the MongoDB driver can do: succeed, or raise.
BackendOutcomes == {"ok", "OperationFailure", "ServerSelectionTimeoutError", "RuntimeError"}

(***************************************************************************)
(* bson.objectid.ObjectId: 12 bytes, written as 24 hexadecimal digits.  An *)
(* ObjectId is represented by its canonical (lower case) string.           *)
(***************************************************************************)
OidLen == 24

HexDigits == {"0", "1", "2", "3", "4", "5", "6", "7", "8", "9",
              "A", "B", "C", "D", "E", "F", "a", "b", "c", "d", "e", "f"}

Lower(c) ==
    CASE c = "A" -> "a" [] c = "B" -> "b" [] c = "C" -> "c"
      [] c = "D" -> "d" [] c = "E" -> "e" [] c = "F" -> "f"
      [] OTHER -> c

\* ObjectId.is_valid(s) for a string s.
ObjectId_is_valid(s) == Len(s) = OidLen /\ \A i \in 1..Len(s) : s[i] \in HexDigits

\* ObjectId(s), for a valid s.
ObjectId(s) == [i \in 1..Len(s) |-> Lower(s[i])]

\* The n-th ObjectId the server generates.
NewObjectId(n) == [i \in 1..OidLen |-> IF i < OidLen THEN "0" ELSE Digit(n)]

(***************************************************************************)
(* Python values whose type the code tests: [type, val].                   *)
(***************************************************************************)
PyStr(s) == [type |-> "str", val |-> s]
PyNone == [type |-> "NoneType", val |-> <<>>]

\* bool(v): None and the empty string are falsy.
Truthy(v) == v.type = "str" /\ v.val # <<>>

(***************************************************************************)
(* pymongo cursor: find() builds it, skip/limit/sort set its options in    *)
(* any order, and iterating it runs the query: filter, then sort, then     *)
(* skip, then limit.                                                       *)
(***************************************************************************)
Matches(doc, filter) == \A k \in DOMAIN filter : k \in DOMAIN doc /\ doc[k] = filter[k]

find(events, filter) ==
    [docs |-> SelectSeq(events, LAMBDA d : Matches(d, filter)),
     skip |-> 0, limit |-> 0, sort |-> "none"]

Cursor_skip(c, n) == [c EXCEPT !.skip = n]
Cursor_limit(c, n) == [c EXCEPT !.limit = n]
\* A sort that ignores the direction it is given.
Cursor_sort_ascending(c, key, direction) == [c EXCEPT !.sort = "asc"]

Cursor_sort(c, key, direction) ==
    [c EXCEPT !.sort = IF direction = -1 THEN "desc" ELSE "asc"]

Permutations1(n) == {p \in [1..n -> 1..n] : \A i, j \in 1..n : i # j => p[i] # p[j]}

\* The orders in which the server may return docs sorted on "timestamp":
\* the order among equal keys is not specified.
SortedOrders(docs, sort) ==
    LET n == Len(docs)
        before(a, b) == IF sort = "desc" THEN StrLess(b.timestamp, a.timestamp)
                        ELSE StrLess(a.timestamp, b.timestamp)
    IN IF sort = "none" THEN {docs}
       ELSE {[i \in 1..n |-> docs[p[i]]] : p \in
                {q \in Permutations1(n) :
                    \A i, j \in 1..n : i < j => ~before(docs[q[j]], docs[q[i]])}}

\* limit(0) is "no limit"; a negative limit is served as its absolute value.
EffectiveLimit(n, len) == IF n = 0 THEN len ELSE IF n < 0 THEN -n ELSE n

SkipLimit(s, skip, limit) ==
    LET rest == SubSeq(s, skip + 1, Len(s))
        lim == EffectiveLimit(limit, Len(rest))
    IN SubSeq(rest, 1, IF lim < Len(rest) THEN lim ELSE Len(rest))

\* A query that skips and limits in insertion order and sorts what is left.
CursorResults_sort_last(c) == SortedOrders(SkipLimit(c.docs, c.skip, c.limit), c.sort)

\* list(cursor): every sequence the query may return.
CursorResults(c) == {SkipLimit(s, c.skip, c.limit) : s \in SortedOrders(c.docs, c.sort)}

(***************************************************************************)
(* MongoDBStorage.  self = [client, db, events_collection]; mongo is the   *)
(* server: [events: the documents of the "events" collection in insertion  *)
(* order, next_oid: the number of ObjectIds generated].  Every method is   *)
(* an operator that gives the outcome of one call:                         *)
(*   [self, mongo, ret, log]                                               *)
(* where ret = [op, exc, is_none, id, events, ok, backend_calls] is what   *)
(* the caller observes (exc # "none": the exception that reached it) and   *)
(* log the records the call handed to the logger.                          *)
(***************************************************************************)
Ret(op) ==
    [op |-> op, exc |-> "none", is_none |-> FALSE, id |-> <<>>,
     events |-> <<>>, ok |-> FALSE, backend_calls |-> 0]

ReturnNone(op, calls) == [Ret(op) EXCEPT !.is_none = TRUE, !.backend_calls = calls]
Raise(op, exc, calls) == [Ret(op) EXCEPT !.exc = exc, !.backend_calls = calls]

Outcome(self, mongo, ret, log) == [self |-> self, mongo |-> mongo, ret |-> ret, log |-> log]

LogRec(level, msg) == [level |-> level, msg |-> msg]

\* A guard that tests the client instead of the collection.
NotConnected_client(self) == self.client = "None"

\* The guard every method starts with: `self.events_collection is None`.
NotConnected(self) == self.events_collection = "None"

\* The except clauses of the store's methods, in textual order.
init_except == <<"ServerSelectionTimeoutError", "OperationFailure", "Exception">>
insert_event_except == <<"OperationFailure", "Exception">>
get_events_only_operation_failure == <<"OperationFailure">>
get_events_except == <<"OperationFailure", "Exception">>
get_events_by_gesture_except == <<"OperationFailure", "Exception">>
clear_events_except == <<"OperationFailure", "Exception">>
get_event_by_id_except == <<"OperationFailure", "Exception">>
close_except == <<"Exception">>

\* MongoDBStorage.__init__: client_outcome is what MongoClient(...) does,
\* ping_outcome what the ping does.
MongoDBStorage_init(mongo, client_outcome, ping_outcome) ==
    LET none == [client |-> "None", db |-> "None", events_collection |-> "None"]
        exc == IF client_outcome # "ok" THEN client_outcome ELSE ping_outcome
        made == IF client_outcome = "ok" THEN [none EXCEPT !.client = "open"] ELSE none
        calls == IF client_outcome = "ok" THEN 1 ELSE 0
        k == ExceptClause(init_except, exc)
        offline == LogRec("warning", "Running in offline mode - events will not be persisted")
    IN IF exc = "ok"
       THEN Outcome([client |-> "open", db |-> "Database", events_collection |-> "Collection"],
                    mongo, ReturnNone("__init__", 1),
                    <<LogRec("info", "Successfully connected to MongoDB")>>)
       ELSE IF k = 0 THEN Outcome(made, mongo, Raise("__init__", exc, calls), <<>>)
       ELSE IF k = 1
       THEN Outcome(made, mongo, ReturnNone("__init__", calls),
                    <<LogRec("error", "Failed to connect to MongoDB (timeout)"), offline>>)
       ELSE IF k = 2
       THEN Outcome(made, mongo, ReturnNone("__init__", calls),
                    <<LogRec("error", "MongoDB operation failed"), offline>>)
       ELSE Outcome(made, mongo, ReturnNone("__init__", calls),
                    <<LogRec("error", "Failed to connect to MongoDB"), offline>>)

\* MongoDBStorage.insert_event(event) at clock t.
insert_event(self, mongo, event, outcome, t) ==
    LET ev == IF "timestamp" \notin DOMAIN event
              THEN event @@ [timestamp |-> isoformat(t)] ELSE event
        oid == NewObjectId(mongo.next_oid)
        doc == ev @@ ("_id" :> oid)
        k == ExceptClause(insert_event_except, outcome)
    IN IF NotConnected(self)
       THEN Outcome(self, mongo, ReturnNone("insert_event", 0),
                    <<LogRec("warning", "MongoDB not connected, cannot insert event")>>)
       ELSE IF outcome = "ok"
       THEN Outcome(self,
                    [events |-> Append(mongo.events, doc), next_oid |-> mongo.next_oid + 1],
                    [Ret("insert_event") EXCEPT !.id = oid, !.backend_calls = 1],
                    <<LogRec("debug", "Event inserted with ID")>>)
       ELSE IF k = 0 THEN Outcome(self, mongo, Raise("insert_event", outcome, 1), <<>>)
       ELSE IF k = 1
       THEN Outcome(self, mongo, ReturnNone("insert_event", 1),
                    <<LogRec("error", "MongoDB operation failed while inserting event")>>)
       ELSE Outcome(self, mongo, ReturnNone("insert_event", 1),
                    <<LogRec("error", "Error inserting event")>>)

\* A validation without the lower bound.
ClampLimit_no_floor(limit) == IF limit < 1000 THEN limit ELSE 1000

\* The parameter validation of get_events.
ClampLimit(limit) ==
    LET m == IF limit < 1000 THEN limit ELSE 1000 IN IF 1 > m THEN 1 ELSE m

ClampOffset(offset) == IF 0 > offset THEN 0 ELSE offset

\* MongoDBStorage.get_events(limit, offset): the set of its possible outcomes.
get_events(self, mongo, limit, offset, outcome) ==
    LET lim == ClampLimit(limit)
        off == ClampOffset(offset)
        cursor == Cursor_sort(Cursor_limit(Cursor_skip(find(mongo.events, <<>>), off), lim),
                              "timestamp", -1)
        k == ExceptClause(get_events_except, outcome)
    IN IF NotConnected(self)
       THEN {Outcome(self, mongo, Ret("get_events"),
                     <<LogRec("warning", "MongoDB not connected, returning empty list")>>)}
       ELSE IF outcome = "ok"
       THEN {Outcome(self, mongo,
                     [Ret("get_events") EXCEPT !.events = events, !.backend_calls = 1],
                     <<LogRec("debug", "Retrieved events")>>) : events \in CursorResults(cursor)}
       ELSE IF k = 0 THEN {Outcome(self, mongo, Raise("get_events", outcome, 1), <<>>)}
       ELSE IF k = 1
       THEN {Outcome(self, mongo, [Ret("get_events") EXCEPT !.backend_calls = 1],
                     <<LogRec("error", "MongoDB operation failed while retrieving events")>>)}
       ELSE {Outcome(self, mongo, [Ret("get_events") EXCEPT !.backend_calls = 1],
                     <<LogRec("error", "Error retrieving events")>>)}

\* MongoDBStorage.get_events_by_gesture(gesture, limit): gesture is a Python
\* value, limit is passed to the cursor as it is.
get_events_by_gesture(self, mongo, gesture, limit, outcome) ==
    LET cursor == Cursor_sort(Cursor_limit(find(mongo.events, [gesture |-> gesture.val]), limit),
                              "timestamp", -1)
        k == ExceptClause(get_events_by_gesture_except, outcome)
    IN IF NotConnected(self)
       THEN {Outcome(self, mongo, Ret("get_events_by_gesture"),
                     <<LogRec("warning", "MongoDB not connected, returning empty list")>>)}
       ELSE IF ~Truthy(gesture) \/ gesture.type # "str"
       THEN {Outcome(self, mongo, Ret("get_events_by_gesture"),
                     <<LogRec("warning", "Invalid gesture parameter")>>)}
       ELSE IF outcome = "ok"
       THEN {Outcome(self, mongo,
                     [Ret("get_events_by_gesture") EXCEPT !.events = events, !.backend_calls = 1],
                     <<LogRec("debug", "Retrieved events for gesture")>>) :
                events \in CursorResults(cursor)}
       ELSE IF k = 0 THEN {Outcome(self, mongo, Raise("get_events_by_gesture", outcome, 1), <<>>)}
       ELSE IF k = 1
       THEN {Outcome(self, mongo, [Ret("get_events_by_gesture") EXCEPT !.backend_calls = 1],
                     <<LogRec("error", "MongoDB operation failed while filtering by gesture")>>)}
       ELSE {Outcome(self, mongo, [Ret("get_events_by_gesture") EXCEPT !.backend_calls = 1],
                     <<LogRec("error", "Error retrieving events by gesture")>>)}

\* A delete that removes one document only.
delete_first(mongo) ==
    [mongo EXCEPT !.events = IF mongo.events = <<>> THEN <<>> ELSE Tail(mongo.events)]

\* collection.delete_many({})
delete_many(mongo) == [mongo EXCEPT !.events = <<>>]

\* MongoDBStorage.clear_events()
clear_events(self, mongo, outcome) ==
    LET k == ExceptClause(clear_events_except, outcome)
    IN IF NotConnected(self)
       THEN Outcome(self, mongo, Ret("clear_events"),
                    <<LogRec("warning", "MongoDB not connected, cannot clear events")>>)
       ELSE IF outcome = "ok"
       THEN Outcome(self, delete_many(mongo),
                    [Ret("clear_events") EXCEPT !.ok = TRUE, !.backend_calls = 1],
                    <<LogRec("info", "Cleared events from database")>>)
       ELSE IF k = 0 THEN Outcome(self, mongo, Raise("clear_events", outcome, 1), <<>>)
       ELSE IF k = 1
       THEN Outcome(self, mongo, [Ret("clear_events") EXCEPT !.backend_calls = 1],
                    <<LogRec("error", "MongoDB operation failed while clearing events")>>)
       ELSE Outcome(self, mongo, [Ret("clear_events") EXCEPT !.backend_calls = 1],
                    <<LogRec("error", "Error clearing events")>>)

\* collection.find_one({"_id": object_id}): the sequence of the document found
\* (empty when there is none).
find_one(events, object_id) ==
    LET found == SelectSeq(events, LAMBDA d : d["_id"] = object_id)
    IN SubSeq(found, 1, IF Len(found) < 1 THEN Len(found) ELSE 1)

\* MongoDBStorage.get_event_by_id(event_id): event_id is a Python value.
get_event_by_id(self, mongo, event_id, outcome) ==
    LET found == find_one(mongo.events, ObjectId(event_id.val))
        k == ExceptClause(get_event_by_id_except, outcome)
    IN IF NotConnected(self)
       THEN Outcome(self, mongo, ReturnNone("get_event_by_id", 0),
                    <<LogRec("warning", "MongoDB not connected, cannot retrieve event")>>)
       ELSE IF ~Truthy(event_id) \/ event_id.type # "str"
       THEN Outcome(self, mongo, ReturnNone("get_event_by_id", 0),
                    <<LogRec("warning", "Invalid event_id parameter")>>)
       ELSE IF ~ObjectId_is_valid(event_id.val)
       THEN Outcome(self, mongo, ReturnNone("get_event_by_id", 0),
                    <<LogRec("warning", "Invalid ObjectId format")>>)
       ELSE IF outcome = "ok"
       THEN Outcome(self, mongo,
                    [Ret("get_event_by_id") EXCEPT !.events = found, !.is_none = (found = <<>>),
                                                   !.backend_calls = 1],
                    <<>>)
       ELSE IF k = 0 THEN Outcome(self, mongo, Raise("get_event_by_id", outcome, 1), <<>>)
       ELSE IF k = 1
       THEN Outcome(self, mongo, ReturnNone("get_event_by_id", 1),
                    <<LogRec("error", "MongoDB operation failed while retrieving event")>>)
       ELSE Outcome(self, mongo, ReturnNone("get_event_by_id", 1),
                    <<LogRec("error", "Error retrieving event")>>)

\* A close that also drops the collection handle.
close_and_forget(self, mongo, outcome) ==
    IF self.client = "None"
    THEN Outcome(self, mongo, ReturnNone("close", 0), <<>>)
    ELSE Outcome([self EXCEPT !.client = "closed", !.events_collection = "None"], mongo,
                 ReturnNone("close", 1), <<LogRec("info", "MongoDB connection closed")>>)

\* MongoDBStorage.close()
close(self, mongo, outcome) ==
    LET k == ExceptClause(close_except, outcome)
    IN IF self.client = "None"
       THEN Outcome(self, mongo, ReturnNone("close", 0), <<>>)
       ELSE IF outcome = "ok"
       THEN Outcome([self EXCEPT !.client = "closed"], mongo, ReturnNone("close", 1),
                    <<LogRec("info", "MongoDB connection closed")>>)
       ELSE IF k = 0 THEN Outcome(self, mongo, Raise("close", outcome, 1), <<>>)
       ELSE Outcome(self, mongo, ReturnNone("close", 1),
                    <<LogRec("error", "Error closing MongoDB connection")>>)

(***************************************************************************)
(* The HTTP routes of backend/app.py.  A response is                       *)
(*   [route, status, id, gesture, expression, confidence, timestamp,       *)
(*    events, body]                                                        *)
(* and a route gives [self, mongo, ret, log, response], ret being what the *)
(* store call it made returned (Ret("none") when it made none).            *)
(***************************************************************************)
Response(route, status) ==
    [route |-> route, status |-> status, id |-> <<>>, gesture |-> <<>>,
     expression |-> <<>>, confidence |-> 0, timestamp |-> <<>>, events |-> <<>>,
     body |-> "", service |-> ""]

\* A float is modelled in hundredths; NaN is the float the JSON literal NaN
\* parses to, which Event.confidence: float accepts.  Every ordering
\* comparison with NaN is false.
NaN == -1000000

float_lt(a, b) == a # NaN /\ b # NaN /\ a < b

float_gt(a, b) == a # NaN /\ b # NaN /\ a > b

\* The timestamp that overwrites the one of the request.
EventTimestamp_overwritten(event, t) == isoformat(t)

\* if not event.timestamp: event.timestamp = datetime.now(timezone.utc).isoformat()
EventTimestamp(event, t) ==
    IF ~Truthy(event.timestamp) THEN isoformat(t) ELSE event.timestamp.val

\* A health endpoint that answers for the store.
health_check_of_store(t) ==
    [Response("health", 500) EXCEPT !.body = "Health check failed"]

Routed(o, response) ==
    [self |-> o.self, mongo |-> o.mongo, ret |-> o.ret, log |-> o.log, response |-> response]

NoCall(self, mongo) == Outcome(self, mongo, Ret("none"), <<>>)

\* EventResponse(id=..., gesture=..., ...) built from the request.
EventResponse(route, id, gesture, expression, confidence, timestamp) ==
    [Response(route, 200) EXCEPT !.id = id, !.gesture = gesture, !.expression = expression,
                                 !.confidence = confidence, !.timestamp = timestamp]

\* str(result) for the value insert_event returned.
str_result(ret) == IF ret.is_none THEN S_None ELSE ret.id

\* POST /log_event: event = [gesture, expression, confidence, timestamp], the
\* timestamp a Python value (None when the request has none).
log_event(db, self, mongo, event, outcome, t) ==
    LET timestamp == EventTimestamp(event, t)
        o == insert_event(self, mongo,
                          [gesture |-> event.gesture, expression |-> event.expression,
                           confidence |-> event.confidence, timestamp |-> timestamp],
                          outcome, t)
    IN IF event.gesture = <<>> \/ Len(strip(event.gesture)) = 0
       THEN Routed(NoCall(self, mongo),
                   [Response("log_event", 400) EXCEPT !.body = "Gesture cannot be empty"])
       ELSE IF event.expression = <<>> \/ Len(strip(event.expression)) = 0
       THEN Routed(NoCall(self, mongo),
                   [Response("log_event", 400) EXCEPT !.body = "Expression cannot be empty"])
       ELSE IF float_lt(event.confidence, 0) \/ float_gt(event.confidence, 100)
       THEN Routed(NoCall(self, mongo),
                   [Response("log_event", 400) EXCEPT !.body = "Confidence must be between 0 and 1"])
       ELSE IF db = "None"
       THEN Routed(NoCall(self, mongo),
                   EventResponse("log_event", S_mock_id, event.gesture, event.expression,
                                 event.confidence, timestamp))
       ELSE IF o.ret.exc # "none"
       THEN Routed(o, [Response("log_event", 500) EXCEPT !.body = "Failed to log event"])
       ELSE Routed(o, EventResponse("log_event", str_result(o.ret), event.gesture,
                                    event.expression, event.confidence, timestamp))

\* The EventResponse the /events route builds from a stored document.
EventResponseOf(e) ==
    [id |-> e["_id"], gesture |-> e.gesture, expression |-> e.expression,
     confidence |-> e.confidence, timestamp |-> e.timestamp]

\* GET /events?limit=&offset=: the set of its possible outcomes.
get_events_route(db, self, mongo, limit, offset, outcome) ==
    IF limit < 1 \/ limit > 1000
    THEN {Routed(NoCall(self, mongo),
                 [Response("get_events", 400) EXCEPT !.body = "Limit must be between 1 and 1000"])}
    ELSE IF offset < 0
    THEN {Routed(NoCall(self, mongo),
                 [Response("get_events", 400) EXCEPT !.body = "Offset must be non-negative"])}
    ELSE IF db = "None"
    THEN {Routed(NoCall(self, mongo), Response("get_events", 200))}
    ELSE {IF o.ret.exc # "none"
          THEN Routed(o, [Response("get_events", 500) EXCEPT !.body = "Failed to retrieve events"])
          ELSE Routed(o, [Response("get_events", 200) EXCEPT
                            !.events = [i \in 1..Len(o.ret.events) |-> EventResponseOf(o.ret.events[i])]])
          : o \in get_events(self, mongo, limit, offset, outcome)}

\* DELETE /events
clear_events_route(db, self, mongo, outcome) ==
    LET o == clear_events(self, mongo, outcome)
    IN IF db = "None"
       THEN Routed(NoCall(self, mongo),
                   [Response("clear_events", 200) EXCEPT !.body = "warning: MongoDB not available"])
       ELSE IF o.ret.exc # "none"
       THEN Routed(o, [Response("clear_events", 500) EXCEPT !.body = "Failed to clear events"])
       ELSE Routed(o, [Response("clear_events", 200) EXCEPT !.body = "success: All events cleared"])

\* GET /health at clock t.
health_check(t) ==
    [Response("health", 200) EXCEPT !.body = "healthy",
                                    !.service = "Gesture AI Communication Backend",
                                    !.timestamp = isoformat(t)]

\* `db = MongoDBStorage(...)` of app.py, None when the constructor raises.
app_db(o) == IF o.ret.exc # "none" THEN "None" ELSE "MongoDBStorage"

(***************************************************************************)
(* FacialExpressionRecognizer.  Coordinates and distances are integers in  *)
(* units of 1e-5 of the frame (the epsilon of the mouth ratio is 1 unit);  *)
(* the mouth ratio is the exact fraction [num, den]; a threshold on it is  *)
(* given in thousandths.                                                   *)
(***************************************************************************)
EXPRESSIONS == <<"Neutral", "Happy", "Sad", "Angry", "Unknown">>

MOUTH_LEFT == 61
MOUTH_RIGHT == 291
MOUTH_TOP == 13
MOUTH_BOTTOM == 14
LEFT_EYE_LEFT == 33
LEFT_EYE_RIGHT == 133

Abs(n) == IF n < 0 THEN -n ELSE n

RECURSIVE SqrtBetween(_, _, _)
\* The integer square root of n, known to lie in lo..hi.
SqrtBetween(n, lo, hi) ==
    IF lo = hi THEN lo
    ELSE LET mid == (lo + hi + 1) \div 2
         IN IF mid * mid <= n THEN SqrtBetween(n, mid, hi) ELSE SqrtBetween(n, lo, mid - 1)

\* np.sqrt, on the squares the model meets (below 2^31).
sqrt(n) == SqrtBetween(n, 0, 46340)

Fraction(num, den) == [num |-> num, den |-> den]
Zero == Fraction(0, 1)

\* ratio > t / 1000 and ratio < t / 1000
RatioGt(r, t) == 1000 * r.num > t * r.den
RatioLt(r, t) == 1000 * r.num < t * r.den

\* landmarks[i]: IndexError when the list is too short, then the attribute
\* and type errors the points of the list give when read.
LandmarkAccess(landmarks, indices) ==
    IF \E i \in indices : i >= landmarks.len THEN "IndexError"
    ELSE IF landmarks.kind = "no_attribute" THEN "AttributeError"
    ELSE IF landmarks.kind = "none_coordinate" THEN "TypeError"
    ELSE "none"

extract_except == <<"IndexError", "AttributeError">>

\* extract_mouth_distance(landmarks): [exc, value]
extract_mouth_distance(landmarks) ==
    LET exc == LandmarkAccess(landmarks, {MOUTH_LEFT, MOUTH_RIGHT, MOUTH_TOP, MOUTH_BOTTOM})
        mouth_left == landmarks.points[MOUTH_LEFT]
        mouth_right == landmarks.points[MOUTH_RIGHT]
        mouth_top == landmarks.points[MOUTH_TOP]
        mouth_bottom == landmarks.points[MOUTH_BOTTOM]
        left_right_distance == sqrt((mouth_left.x - mouth_right.x) * (mouth_left.x - mouth_right.x)
                                    + (mouth_left.y - mouth_right.y) * (mouth_left.y - mouth_right.y))
        top_bottom_distance == sqrt((mouth_top.y - mouth_bottom.y) * (mouth_top.y - mouth_bottom.y))
    IN IF exc = "none"
       THEN [exc |-> "none",
             value |-> IF left_right_distance > 0
                       THEN Fraction(top_bottom_distance, left_right_distance + 1)
                       ELSE Zero]
       ELSE IF ExceptClause(extract_except, exc) # 0 THEN [exc |-> "none", value |-> Zero]
       ELSE [exc |-> exc, value |-> Zero]

\* extract_eye_distance(landmarks): [exc, value]
extract_eye_distance(landmarks) ==
    LET exc == LandmarkAccess(landmarks, {LEFT_EYE_LEFT, LEFT_EYE_RIGHT})
        left_eye_left == landmarks.points[LEFT_EYE_LEFT]
        left_eye_right == landmarks.points[LEFT_EYE_RIGHT]
    IN IF exc = "none"
       THEN [exc |-> "none",
             value |-> sqrt((left_eye_left.x - left_eye_right.x) * (left_eye_left.x - left_eye_right.x)
                            + (left_eye_left.y - left_eye_right.y) * (left_eye_left.y - left_eye_right.y))]
       ELSE IF ExceptClause(extract_except, exc) # 0 THEN [exc |-> "none", value |-> 0]
       ELSE [exc |-> exc, value |-> 0]

Result(label, confidence) == [label |-> label, confidence |-> confidence, exc |-> "none"]

\* The heuristic with the confidences of Sad and Angry exchanged.
Heuristic_confidences_exchanged(m, e) ==
    IF RatioGt(m, 20) /\ e > 1000 THEN Result("Happy", 85)
    ELSE IF RatioLt(m, 10) /\ e < 800 THEN Result("Sad", 75)
    ELSE IF RatioGt(m, 15) /\ e < 900 THEN Result("Angry", 80)
    ELSE Result("Neutral", 90)

\* The heuristic with the mouth threshold of Happy ten times too large.
Heuristic_happy_above_020(m, e) ==
    IF RatioGt(m, 200) /\ e > 1000 THEN Result("Happy", 85)
    ELSE IF RatioLt(m, 10) /\ e < 800 THEN Result("Sad", 80)
    ELSE IF RatioGt(m, 15) /\ e < 900 THEN Result("Angry", 75)
    ELSE Result("Neutral", 90)

\* The heuristic with the confidences given in percent.
Heuristic_percent(m, e) ==
    IF RatioGt(m, 20) /\ e > 1000 THEN Result("Happy", 8500)
    ELSE IF RatioLt(m, 10) /\ e < 800 THEN Result("Sad", 8000)
    ELSE IF RatioGt(m, 15) /\ e < 900 THEN Result("Angry", 7500)
    ELSE Result("Neutral", 9000)

\* The heuristic of recognize: mouth_distance a fraction, eye_distance in
\* units of 1e-5, the confidence in hundredths.
Heuristic(mouth_distance, eye_distance) ==
    IF RatioGt(mouth_distance, 20) /\ eye_distance > 1000 THEN Result("Happy", 85)
    ELSE IF RatioLt(mouth_distance, 10) /\ eye_distance < 800 THEN Result("Sad", 80)
    ELSE IF RatioGt(mouth_distance, 15) /\ eye_distance < 900 THEN Result("Angry", 75)
    ELSE Result("Neutral", 90)

recognize_except == <<"Exception">>

\* FacialExpressionRecognizer.recognize(image): frame says what cvtColor and
\* the face mesh do with the image.  Gives the result, the locals
\* mouth_distance and eye_distance and the steps that ran.
recognize_expression(cv2, face_mesh, frame) ==
    LET process_exc == IF face_mesh = "closed" THEN "ValueError" ELSE frame.process
        landmarks == frame.faces[1]
        m == extract_mouth_distance(landmarks)
        e == extract_eye_distance(landmarks)
        out(ret, md, ed, steps) ==
            [ret |-> IF ret.exc = "none" THEN ret
                     ELSE IF ExceptClause(recognize_except, ret.exc) # 0 THEN Result("Error", 0)
                     ELSE ret,
             mouth_distance |-> md, eye_distance |-> ed, steps |-> steps]
        raise(exc) == [label |-> "", confidence |-> 0, exc |-> exc]
    IN IF cv2 = "None" THEN out(Result("Unknown", 0), Zero, 0, <<>>)
       ELSE IF frame.cvtColor # "none" THEN out(raise(frame.cvtColor), Zero, 0, <<"cvtColor">>)
       ELSE IF process_exc # "none" THEN out(raise(process_exc), Zero, 0, <<"cvtColor", "process">>)
       ELSE IF Len(frame.faces) = 0
       THEN out(Result("Unknown", 0), Zero, 0, <<"cvtColor", "process">>)
       ELSE IF m.exc # "none"
       THEN out(raise(m.exc), Zero, 0, <<"cvtColor", "process", "extract_mouth_distance">>)
       ELSE IF e.exc # "none"
       THEN out(raise(e.exc), m.value, 0,
                <<"cvtColor", "process", "extract_mouth_distance", "extract_eye_distance">>)
       ELSE out(Heuristic(m.value, e.value), m.value, e.value,
                <<"cvtColor", "process", "extract_mouth_distance", "extract_eye_distance">>)

\* FacialExpressionRecognizer.close(): the mesh raises when already closed.
close_expression(face_mesh) ==
    LET exc == IF face_mesh = "closed" THEN "ValueError" ELSE "none"
    IN [face_mesh |-> "closed",
        exc |-> IF exc = "none" \/ ExceptClause(<<"Exception">>, exc) # 0 THEN "none" ELSE exc,
        log |-> IF exc # "none" /\ ExceptClause(<<"Exception">>, exc) # 0
                THEN <<"logger.error">> ELSE <<>>]

(***************************************************************************)
(* The gesture recognizer: gesture_recognition.py.  Probabilities and      *)
(* confidences are in hundredths.                                          *)
(***************************************************************************)
GESTURES == <<"Hello", "Help", "Yes", "No", "Stop", "Neutral">>

NUM_FEATURES == 63

\* Python objects a model artifact may hold: n is the number of classes of a
\* fitted classifier, the number of features of a fitted scaler.
NoneObject == [type |-> "NoneType", fitted |-> FALSE, n |-> 0]
RandomForestClassifier(fitted, n_classes) ==
    [type |-> "RandomForestClassifier", fitted |-> fitted, n |-> n_classes]
StandardScaler(fitted, n_features) ==
    [type |-> "StandardScaler", fitted |-> fitted, n |-> n_features]
IsNone(obj) == obj.type = "NoneType"

\* data.get(key) on the unpickled object.
dict_get(data, key) ==
    IF key \in DOMAIN data.items THEN data.items[key] ELSE NoneObject

load_model_except == <<"Exception">>

\* The first exception the try block of load_model meets, "none" if none.
load_model_raised(model_file) ==
    IF ~model_file.exists THEN "none"
    ELSE IF model_file.open # "none" THEN model_file.open
    ELSE IF model_file.load # "none" THEN model_file.load
    ELSE IF model_file.data.type # "dict" THEN "AttributeError"
    ELSE "none"

\* load_model with a handler that falls back to the default model.
load_model_falls_back(self, model_file) ==
    LET exc == load_model_raised(model_file)
    IN IF ~model_file.exists \/ exc # "none"
       THEN [self |-> [self EXCEPT !.classifier = RandomForestClassifier(FALSE, 0),
                                   !.scaler = StandardScaler(FALSE, 0)],
             exc |-> "none", log |-> IF exc = "none" THEN "warning" ELSE "error"]
       ELSE [self |-> [self EXCEPT !.classifier = dict_get(model_file.data, "classifier"),
                                   !.scaler = dict_get(model_file.data, "scaler")],
             exc |-> "none", log |-> "info"]

\* load_model with no default model when the file is missing.
load_model_no_default(self, model_file) ==
    LET exc == load_model_raised(model_file)
    IN IF ~model_file.exists THEN [self |-> self, exc |-> "none", log |-> "warning"]
       ELSE IF exc = "none"
       THEN [self |-> [self EXCEPT !.classifier = dict_get(model_file.data, "classifier"),
                                   !.scaler = dict_get(model_file.data, "scaler")],
             exc |-> "none", log |-> "info"]
       ELSE [self |-> self, exc |-> exc,
             log |-> IF ExceptClause(load_model_except, exc) # 0 THEN "error" ELSE "none"]

\* GestureRecognizer.load_model(): [self, exc, log].  The handler logs and
\* raises the exception again.
load_model(self, model_file) ==
    LET exc == load_model_raised(model_file)
    IN IF ~model_file.exists
       THEN [self |-> [self EXCEPT !.classifier = RandomForestClassifier(FALSE, 0),
                                   !.scaler = StandardScaler(FALSE, 0)],
             exc |-> "none", log |-> "warning"]
       ELSE IF exc = "none"
       THEN [self |-> [self EXCEPT !.classifier = dict_get(model_file.data, "classifier"),
                                   !.scaler = dict_get(model_file.data, "scaler")],
             exc |-> "none", log |-> "info"]
       ELSE [self |-> self, exc |-> exc,
             log |-> IF ExceptClause(load_model_except, exc) # 0 THEN "error" ELSE "none"]

\* GestureRecognizer.__init__(model_path): [self, exc, load_model_calls].
GestureRecognizer_init(model_file) ==
    LET o == load_model([hands |-> "open", classifier |-> NoneObject, scaler |-> NoneObject],
                        model_file)
    IN [self |-> o.self, exc |-> o.exc, load_model_calls |-> 1]

\* GestureAIUI.__init__: self.gesture_recognizer, None when the constructor
\* raised.
GestureAIUI_gesture_recognizer(o) ==
    IF o.exc = "none"
    THEN [is_none |-> FALSE, hands |-> o.self.hands, classifier |-> o.self.classifier,
          scaler |-> o.self.scaler]
    ELSE [is_none |-> TRUE, hands |-> "open", classifier |-> NoneObject, scaler |-> NoneObject]

\* features after the loop of extract_landmarks: x, y, z of each landmark.
Features(landmark) ==
    [i \in 1..(3 * Len(landmark)) |->
        LET p == landmark[((i - 1) \div 3) + 1]
        IN CASE (i - 1) % 3 = 0 -> p.x
             [] (i - 1) % 3 = 1 -> p.y
             [] OTHER -> p.z]

NoFeatures == [is_none |-> TRUE, shape |-> <<0, 0>>, data |-> <<>>, exc |-> "none"]

\* The exception the try block of extract_landmarks meets, "none" if none.
extract_landmarks_raised(hand_landmarks) ==
    IF hand_landmarks.type = "NoneType" THEN "none"
    ELSE IF hand_landmarks.type # "NormalizedLandmarkList" THEN "AttributeError"
    ELSE IF \E i \in 1..Len(hand_landmarks.landmark) :
                ~({"x", "y", "z"} \subseteq DOMAIN hand_landmarks.landmark[i])
    THEN "AttributeError"
    ELSE "none"

\* extract_landmarks without the check of the number of features.
extract_landmarks_unchecked(hand_landmarks) ==
    LET exc == extract_landmarks_raised(hand_landmarks)
    IN IF hand_landmarks.type = "NoneType" \/ exc # "none" THEN NoFeatures
       ELSE [is_none |-> FALSE, shape |-> <<1, 3 * Len(hand_landmarks.landmark)>>,
             data |-> Features(hand_landmarks.landmark), exc |-> "none"]

\* GestureRecognizer.extract_landmarks(hand_landmarks): None, or the array
\* of shape (1, 63).
extract_landmarks(hand_landmarks) ==
    LET exc == extract_landmarks_raised(hand_landmarks)
    IN IF hand_landmarks.type = "NoneType" THEN NoFeatures
       ELSE IF exc # "none"
       THEN IF ExceptClause(<<"Exception">>, exc) # 0 THEN NoFeatures
            ELSE [NoFeatures EXCEPT !.exc = exc]
       ELSE IF 3 * Len(hand_landmarks.landmark) # NUM_FEATURES THEN NoFeatures
       ELSE [is_none |-> FALSE, shape |-> <<1, 3 * Len(hand_landmarks.landmark)>>,
             data |-> Features(hand_landmarks.landmark), exc |-> "none"]

\* A transform that does not check that the scaler is fitted.
scaler_transform_unfitted(scaler, features) ==
    IF scaler.type # "StandardScaler" THEN "AttributeError"
    ELSE IF scaler.fitted /\ scaler.n # features.shape[2] THEN "ValueError"
    ELSE "none"

\* scaler.transform(features): the exception it raises, "none" if none.
scaler_transform(scaler, features) ==
    IF scaler.type # "StandardScaler" THEN "AttributeError"
    ELSE IF ~scaler.fitted THEN "NotFittedError"
    ELSE IF scaler.n # features.shape[2] THEN "ValueError"
    ELSE "none"

\* classifier.predict_proba(features_scaled): the exception it raises.
classifier_predict_proba(classifier) ==
    IF classifier.type # "RandomForestClassifier" THEN "AttributeError"
    ELSE IF ~classifier.fitted THEN "NotFittedError"
    ELSE "none"

OneHot(n, i) == [k \in 1..n |-> IF k = i THEN 100 ELSE 0]

\* What a fitted classifier of n classes answers for the scene of a frame:
\* one row of probabilities that sum to 1.
Probabilities(n, scene) ==
    CASE scene = 1 -> OneHot(n, 1)
      [] scene = 2 -> [k \in 1..n |-> IF k \in {2, 3} THEN 50 ELSE 0]
      [] scene = 3 -> [k \in 1..n |-> CASE k = 1 -> 10 [] k = 4 -> 55 [] k = 5 -> 35
                                           [] OTHER -> 0]
      [] OTHER -> OneHot(n, n)

\* np.max(probabilities)
np_max(probabilities) ==
    CHOOSE m \in {probabilities[i] : i \in DOMAIN probabilities} :
        \A i \in DOMAIN probabilities : probabilities[i] <= m

\* np.argmax(probabilities): the first index of the maximum, from 0.
np_argmax(probabilities) ==
    (CHOOSE i \in DOMAIN probabilities :
        /\ probabilities[i] = np_max(probabilities)
        /\ \A j \in DOMAIN probabilities : probabilities[j] = np_max(probabilities) => i <= j) - 1

Raised(exc) == [label |-> "", confidence |-> 0, exc |-> exc]

\* A try block without a handler.
Caught_nothing(ret, sentinel) == ret

\* What a try block with the handler `except Exception` returns for ret.
Caught(ret, sentinel) ==
    IF ret.exc = "none" THEN ret
    ELSE IF ExceptClause(<<"Exception">>, ret.exc) # 0 THEN sentinel
    ELSE ret

\* The sentinel of a frame without a hand, given as "Unknown".
NoHandResult_unknown == Result("Unknown", 0)

\* The result of recognize when no hand gave features.
NoHandResult == Result("No Hand", 0)

\* The classification of recognize, lines 116-122.
Classify(self, features, scene, steps) ==
    LET t == scaler_transform(self.scaler, features)
        p == classifier_predict_proba(self.classifier)
        probabilities == Probabilities(self.classifier.n, scene)
        gesture_idx == np_argmax(probabilities)
    IN IF t # "none" THEN [ret |-> Raised(t), steps |-> steps \o <<"transform">>]
       ELSE IF p # "none"
       THEN [ret |-> Raised(p), steps |-> steps \o <<"transform", "predict_proba">>]
       ELSE [ret |-> IF gesture_idx + 1 \in DOMAIN GESTURES
                     THEN Result(GESTURES[gesture_idx + 1], np_max(probabilities))
                     ELSE Raised("IndexError"),
             steps |-> steps \o <<"transform", "predict_proba">>]

\* A provider that goes on processing after close().
hands_process_after_close(hands, frame) == frame.process

\* self.hands.process(image_rgb): the exception it raises, "none" if none.  A
\* closed provider has no graph left and raises.
hands_process(hands, frame) == IF hands = "closed" THEN "ValueError" ELSE frame.process

\* GestureRecognizer.recognize(image): frame says what cvtColor, image.shape
\* and the hands provider do with the image and the scene it shows.  Gives
\* the result and the steps that ran.
recognize_gesture(self, cv2, frame) ==
    LET process_exc == hands_process(self.hands, frame)
        features == extract_landmarks(frame.hands[1])
        first == IF cv2 # "None" THEN <<"cvtColor">> ELSE <<>>
        out(ret, steps) == [ret |-> Caught(ret, Result("Error", 0)), steps |-> steps]
    IN IF IsNone(self.classifier) \/ IsNone(self.scaler) THEN out(Result("Unknown", 0), <<>>)
       ELSE IF cv2 # "None" /\ frame.cvtColor # "none" THEN out(Raised(frame.cvtColor), first)
       ELSE IF frame.shape # "none" THEN out(Raised(frame.shape), first \o <<"shape">>)
       ELSE IF process_exc # "none"
       THEN out(Raised(process_exc), first \o <<"shape", "process">>)
       ELSE IF Len(frame.hands) = 0 THEN out(NoHandResult, first \o <<"shape", "process">>)
       ELSE IF features.exc # "none"
       THEN out(Raised(features.exc), first \o <<"shape", "process", "extract_landmarks">>)
       ELSE IF features.is_none
       THEN out(NoHandResult, first \o <<"shape", "process", "extract_landmarks">>)
       ELSE LET c == Classify(self, features, frame.scene,
                              first \o <<"shape", "process", "extract_landmarks">>)
            IN out(c.ret, c.steps)

\* Hands.close() raises when the handle is already closed.
hands_close(hands) == IF hands = "closed" THEN "ValueError" ELSE "none"

\* close() without the try block.
close_gesture_unhandled(self) ==
    [self |-> [self EXCEPT !.hands = "closed"], exc |-> hands_close(self.hands), log |-> <<>>]

\* GestureRecognizer.close(): [self, exc].
close_gesture(self) ==
    LET exc == hands_close(self.hands)
    IN [self |-> [self EXCEPT !.hands = "closed"],
        exc |-> IF exc = "none" \/ ExceptClause(<<"Exception">>, exc) # 0 THEN "none" ELSE exc,
        log |-> IF exc # "none" /\ ExceptClause(<<"Exception">>, exc) # 0
                THEN <<"logger.error">> ELSE <<>>]

(***************************************************************************)
(* src/ui/main.py: GestureAIUI.  The object is [running, frame_count, cap, *)
(* hud, facial_recognizer]; its gesture recognizer and the FaceMesh of its *)
(* facial recognizer are the sessions above.  cap is "None" when           *)
(* VideoCapture raised, "closed" when the camera did not open, "opened",   *)
(* and "released" after release().  self.fps is only displayed and is left *)
(* out.  run() and cleanup() return the steps they ran, in order.          *)
(***************************************************************************)
GestureAIUI_init(camera, hud, facial_recognizer) ==
    [running |-> FALSE, frame_count |-> 0, cap |-> camera, hud |-> hud,
     facial_recognizer |-> facial_recognizer]

\* GestureAIUI.check_api_health(): probe is what requests.get did,
\* [status, exc].
check_api_health(probe) ==
    IF probe.exc = "none" THEN [ret |-> probe.status = 200, exc |-> "none"]
    ELSE IF ExceptClause(<<"Exception">>, probe.exc) # 0 THEN [ret |-> FALSE, exc |-> "none"]
    ELSE [ret |-> FALSE, exc |-> probe.exc]

log_event_except == <<"RequestException", "Exception">>

\* GestureAIUI.log_event(gesture, expression, confidence): posted is the set
\* of the bodies handed to requests.post, post is what requests.post did,
\* [status, exc].
GestureAIUI_log_event(posted, gesture, expression, confidence, post) ==
    LET event_data == [gesture |-> gesture, expression |-> expression,
                       confidence |-> confidence]
        k == ExceptClause(log_event_except, post.exc)
    IN [posted |-> posted \cup {event_data},
        exc |-> IF post.exc = "none" \/ k # 0 THEN "none" ELSE post.exc,
        log |-> IF post.exc # "none" THEN (IF k # 0 THEN <<"logger.error">> ELSE <<>>)
                ELSE IF post.status = 200 THEN <<"logger.info">>
                ELSE <<"logger.warning">>]

\* The index of the first step of `planned` that raises, 0 if none does:
\* excs[s] is the exception step s raises, "none" if it raises none.
FirstRaising(planned, excs) ==
    LET raising == {i \in 1..Len(planned) : excs[planned[i]] # "none"}
    IN IF raising = {} THEN 0 ELSE CHOOSE i \in raising : \A j \in raising : i <= j

\* The steps that run, the raising one included.
StepsRun(planned, excs) ==
    IF FirstRaising(planned, excs) = 0 THEN planned
    ELSE SubSeq(planned, 1, FirstRaising(planned, excs))

\* The exception that leaves the steps, "none" if none does.
ExcRaised(planned, excs) ==
    IF FirstRaising(planned, excs) = 0 THEN "none"
    ELSE excs[planned[FirstRaising(planned, excs)]]

\* Step s ran and returned.
Completed(planned, excs, s) ==
    \E i \in 1..Len(StepsRun(planned, excs)) : planned[i] = s /\ excs[s] = "none"

\* GestureAIUI.run(), up to the loop: the camera test and the health probe.
run_start(ui, probe) ==
    IF ui.cap = "None" \/ ui.cap # "opened"
    THEN [ui |-> ui, returned |-> TRUE, api_available |-> FALSE, exc |-> "none"]
    ELSE [ui |-> [ui EXCEPT !.running = TRUE], returned |-> FALSE,
          api_available |-> check_api_health(probe).ret,
          exc |-> check_api_health(probe).exc]

\* A loop that tests no flag.
while_True(running) == TRUE

\* while self.running:
while_test(running) == running

run_except == <<"KeyboardInterrupt", "Exception">>

\* A loop that an error in a frame ends.
run_handler_breaks(k, running) ==
    IF k = 0 THEN [running |-> running, break |-> FALSE]
    ELSE [running |-> FALSE, break |-> TRUE]

\* The except clauses of the loop body: clause 1 clears the flag and breaks,
\* clause 2 logs and goes on; k = 0 is an exception that neither catches.
run_handler(k, running) ==
    IF k = 1 THEN [running |-> FALSE, break |-> TRUE]
    ELSE [running |-> running, break |-> FALSE]

\* The steps of the loop body on a frame that was read, in order.
BodySteps(ui, gr, records) ==
    <<"read", "flip">>
    \o (IF ~gr.is_none THEN <<"gesture_recognizer.recognize">> ELSE <<>>)
    \o (IF ui.facial_recognizer # "None" THEN <<"facial_recognizer.recognize">> ELSE <<>>)
    \o <<"fps">>
    \o (IF ui.hud # "None" THEN <<"draw_overlay">> ELSE <<>>)
    \o <<"imshow", "waitKey">>
    \o (IF records THEN <<"log_event">> ELSE <<>>)

StepNames ==
    {"read", "flip", "gesture_recognizer.recognize", "facial_recognizer.recognize", "fps",
     "draw_overlay", "imshow", "waitKey", "log_event"}

\* One iteration of the loop of run(), its except clauses included.  in is
\* what the environment does: read = [ret, exc] for cap.read, the frame as
\* each recognizer sees it, fault = [step, exc] for the step of cv2 or of
\* the HUD that raises, key for waitKey, post for requests.post.
iteration(ui, gr, fm, cv, api_available, posted, in) ==
    LET g == recognize_gesture(gr, cv, in.gframe)
        x == recognize_expression(cv, fm, in.fframe)
        gesture == IF gr.is_none THEN Result("Unknown", 0) ELSE g.ret
        expression == IF ui.facial_recognizer = "None" THEN Result("Unknown", 0) ELSE x.ret
        records == in.key # "q" /\ in.key = "r" /\ gesture.label # "Unknown" /\ api_available
        l == GestureAIUI_log_event(posted, gesture.label, expression.label,
                                   gesture.confidence, in.post)
        planned == IF in.read.exc = "none" /\ ~in.read.ret THEN <<"read">>
                   ELSE BodySteps(ui, gr, records)
        excs == [s \in StepNames |->
                    CASE s = "read" -> in.read.exc
                      [] s = "gesture_recognizer.recognize" -> gesture.exc
                      [] s = "facial_recognizer.recognize" -> expression.exc
                      [] s = "log_event" -> l.exc
                      [] OTHER -> IF in.fault.step = s THEN in.fault.exc ELSE "none"]
        steps == StepsRun(planned, excs)
        exc == ExcRaised(planned, excs)
        done(s) == Completed(planned, excs, s)
        k == ExceptClause(run_except, exc)
        h == run_handler(k, ui.running)
        read_failed == done("read") /\ ~in.read.ret
    IN [ui |-> [ui EXCEPT !.running = IF exc # "none" THEN h.running
                                       ELSE IF done("waitKey") /\ in.key = "q" THEN FALSE
                                       ELSE @,
                          !.frame_count = IF done("read") /\ in.read.ret THEN @ + 1 ELSE @],
        gesture |-> IF done("gesture_recognizer.recognize") THEN gesture.label ELSE "Unknown",
        gesture_conf |-> IF done("gesture_recognizer.recognize") THEN gesture.confidence
                         ELSE 0,
        expression |-> IF done("facial_recognizer.recognize") THEN expression.label
                       ELSE "Unknown",
        key |-> IF done("waitKey") THEN in.key ELSE "none",
        steps |-> steps,
        exc |-> exc,
        propagates |-> exc # "none" /\ k = 0,
        break |-> read_failed \/ (exc # "none" /\ h.break),
        posted |-> IF \E i \in 1..Len(steps) : steps[i] = "log_event" THEN l.posted
                   ELSE posted,
        g |-> g,
        x |-> x]

CleanupNames ==
    {"cap.release", "gesture_recognizer.close", "facial_recognizer.close",
     "destroyAllWindows"}

\* GestureAIUI.cleanup(): one try statement around the four calls.  in is
\* what cap.release and cv2.destroyAllWindows do.
cleanup(ui, gr, fm, in) ==
    LET cg == close_gesture(gr)
        cx == close_expression(fm)
        planned == (IF ui.cap # "None" THEN <<"cap.release">> ELSE <<>>)
                   \o (IF ~gr.is_none THEN <<"gesture_recognizer.close">> ELSE <<>>)
                   \o (IF ui.facial_recognizer # "None" THEN <<"facial_recognizer.close">>
                       ELSE <<>>)
                   \o <<"destroyAllWindows">>
        excs == [s \in CleanupNames |->
                    CASE s = "cap.release" -> in.release
                      [] s = "gesture_recognizer.close" -> cg.exc
                      [] s = "facial_recognizer.close" -> cx.exc
                      [] OTHER -> in.destroy]
        steps == StepsRun(planned, excs)
        exc == ExcRaised(planned, excs)
        ran(s) == \E i \in 1..Len(steps) : steps[i] = s
    IN [ui |-> [ui EXCEPT !.cap = IF Completed(planned, excs, "cap.release")
                                   THEN "released" ELSE @],
        gesture_recognizer |-> IF ran("gesture_recognizer.close")
                               THEN [gr EXCEPT !.hands = cg.self.hands] ELSE gr,
        face_mesh |-> IF ran("facial_recognizer.close") THEN cx.face_mesh ELSE fm,
        steps |-> steps,
        exc |-> IF exc = "none" \/ ExceptClause(<<"Exception">>, exc) # 0 THEN "none"
                ELSE exc,
        log |-> IF exc = "none" THEN <<"logger.info">> ELSE <<"logger.error">>]

(***************************************************************************)
(* State.                                                                  *)
(***************************************************************************)
VARIABLES
    self,       \* the MongoDBStorage object: [client, db, events_collection]
    mongo,      \* the MongoDB server: [events, next_oid]
    now,        \* the clock
    db,         \* app.py's module variable db: "MongoDBStorage" or "None"
    args,       \* the arguments of the last call
    ret,        \* what the last store call returned or raised
    log,        \* what the last call logged
    response,   \* the last HTTP response
    cv2,        \* facial_expression.py's module variable cv2: "cv2" or "None"
    face_mesh,  \* the recognizer's FaceMesh: "open" or "closed"
    expr_call,  \* the last call on the recognizer and the frame it was given
    mouth_distance, \* the locals of the last recognize
    eye_distance,
    expr_steps, \* the steps the last recognize ran
    expr_ret,   \* what the last call on the recognizer returned or raised
    model_file, \* the file at model_path: [exists, open, load, data]
    gesture_recognizer, \* GestureAIUI's recognizer: [is_none, hands, classifier, scaler]
    load_model_calls,   \* how many times load_model has run
    gest_call,  \* the last call on the gesture recognizer and its inputs
    gest_steps, \* the steps the last recognize ran
    gest_features,  \* what the last extract_landmarks returned
    gest_ret,   \* what the last call on the gesture recognizer returned or raised
    ui,         \* the GestureAIUI object: [running, frame_count, cap, hud, facial_recognizer]
    pc,         \* where run() is: "constructed", "while", "after_loop", "returned", "raised"
    run_frame,  \* the locals of run() and the steps of its last iteration
    cleanup_steps,  \* the steps cleanup() ran
    posted      \* the bodies the UI handed to requests.post

storeVars == <<self, mongo, now, db, args, ret, log, response>>

exprVars == <<cv2, face_mesh, expr_call, mouth_distance, eye_distance, expr_steps, expr_ret>>

gestVars == <<model_file, gesture_recognizer, load_model_calls, gest_call, gest_steps,
              gest_features, gest_ret>>

uiVars == <<ui, pc, run_frame, cleanup_steps, posted>>

(***************************************************************************)
(* Inputs.                                                                 *)
(***************************************************************************)
Limits == {-1, 0, 1, 1000, 5000}
Offsets == {-1, 0, 1}

\* The (limit, offset) pairs of the list calls: every limit from the start,
\* the limits that are served or clamped with a skip, and negative offsets.
ListArgs ==
    (Limits \X {0}) \cup ({1, 1000, 5000} \X {1}) \cup {<<0, -1>>, <<1, -1>>}
Gestures == {S_Hello, S_Yes}
Event(g, x, c, ts) == [gesture |-> g, expression |-> x, confidence |-> c, timestamp |-> ts]

\* Events handed to insert_event directly: timestamp None stands for a dict
\* without the key.
StoreEvents ==
    {Event(S_Hello, S_Happy, 92, PyNone),
     Event(S_Hello, S_Happy, 92, PyStr(isoformat(0))),
     Event(S_Yes, S_Happy, 92, PyStr(<<"9">>))}

\* Bodies of POST /log_event: the valid ones, and the invalid ones.
RouteEvents ==
    {Event(S_Hello, S_Happy, 92, PyNone),
     Event(S_Hello, S_Happy, 92, PyStr(S_Empty)),
     Event(S_Hello, S_Happy, 92, PyStr(isoformat(0))),
     Event(S_Yes, S_Happy, 92, PyStr(<<"9">>)),
     Event(S_Empty, S_Happy, 92, PyNone),
     Event(S_Blank, S_Happy, 92, PyNone),
     Event(S_Hello, S_Empty, 92, PyNone),
     Event(S_Hello, S_Blank, 101, PyNone),
     Event(S_Hello, S_Happy, -1, PyNone),
     Event(S_Hello, S_Happy, 101, PyStr(isoformat(0)))}

\* A body whose confidence is the JSON literal NaN.
NaNEvent == Event(S_Hello, S_Happy, NaN, PyStr(isoformat(0)))

GestureArgs == {PyNone, PyStr(S_Empty), PyStr(S_Hello), PyStr(S_Yes)}

UpperOid(n) == [i \in 1..OidLen |-> IF i < OidLen THEN "A" ELSE Digit(n)]

EventIdArgs ==
    {PyNone, PyStr(S_Empty), PyStr(S_Hello)}
    \cup {PyStr(NewObjectId(n)) : n \in 0..1} \cup {PyStr(UpperOid(0))}

EventDict(e) ==
    IF e.timestamp.type = "NoneType"
    THEN [gesture |-> e.gesture, expression |-> e.expression, confidence |-> e.confidence]
    ELSE [gesture |-> e.gesture, expression |-> e.expression, confidence |-> e.confidence,
          timestamp |-> e.timestamp.val]

\* What the backend does during a call: every outcome for the calls in
\* `plain`, success for the others (a failure does not read the arguments).
WithOutcomes(inputs, plain) ==
    {<<i, "ok">> : i \in inputs} \cup {<<i, x>> : i \in plain, x \in BackendOutcomes}

NoArgs ==
    [op |-> "none", limit |-> 0, offset |-> 0, gesture |-> PyNone, event_id |-> PyNone,
     event |-> Event(<<>>, <<>>, 0, PyNone)]

NoResponse == Response("none", 0)

\* Face landmarks: the list has len points, of which the model keeps the
\* consulted ones.  The mouth is tb high and (lrx, lry) wide, the left eye
\* (ex, ey) wide.
FaceLandmarks(len, kind, tb, lrx, lry, ex, ey) ==
    [len |-> len, kind |-> kind,
     points |-> [i \in {MOUTH_LEFT, MOUTH_RIGHT, MOUTH_TOP, MOUTH_BOTTOM,
                        LEFT_EYE_LEFT, LEFT_EYE_RIGHT} |->
                    CASE i = MOUTH_LEFT -> [x |-> 10000, y |-> 60000]
                      [] i = MOUTH_RIGHT -> [x |-> 10000 + lrx, y |-> 60000 + lry]
                      [] i = MOUTH_TOP -> [x |-> 15000, y |-> 58000]
                      [] i = MOUTH_BOTTOM -> [x |-> 15000, y |-> 58000 + tb]
                      [] i = LEFT_EYE_LEFT -> [x |-> 10000, y |-> 40000]
                      [] OTHER -> [x |-> 10000 + ex, y |-> 40000 + ey]]]

FaceMeshLen == 468

\* Mouth openings over a mouth 0.09999 wide: the ratio is tb / 10000.
MouthOpenings == {0, 90, 100, 110, 150, 160, 200, 210, 300, 400, 500, 800, 1000, 1500, 1600, 2000}

Mouths ==
    {<<tb, 9999, 0>> : tb \in MouthOpenings} \cup {<<200, 6000, 8000>>, <<500, 0, 0>>}

Eyes ==
    {<<ex, 0>> : ex \in {0, 700, 800, 850, 900, 1000, 1100, 10000, 20000, 25000, 30000}}
    \cup {<<600, 800>>}

Frame(cvt, process, faces) == [cvtColor |-> cvt, process |-> process, faces |-> faces]

Frames ==
    {Frame("none", "none", <<FaceLandmarks(FaceMeshLen, "ok", m[1], m[2], m[3], e[1], e[2])>>) :
        m \in Mouths, e \in Eyes}
    \cup {Frame("none", "none", <<FaceLandmarks(len, kind, 300, 9999, 0, 10000, 0)>>) :
            len \in {200, 20}, kind \in {"ok"}}
    \cup {Frame("none", "none", <<FaceLandmarks(FaceMeshLen, kind, 300, 9999, 0, 10000, 0)>>) :
            kind \in {"no_attribute", "none_coordinate"}}
    \cup {Frame("none", "none", <<>>), Frame("RuntimeError", "none", <<>>),
          Frame("none", "RuntimeError", <<>>)}

NoFrame == Frame("none", "none", <<>>)

\* The frames of the sessions that run both recognizers.
FaceFrames ==
    {Frame("none", "none", <<FaceLandmarks(FaceMeshLen, "ok", m[1], 9999, 0, m[2], 0)>>) :
        m \in {<<300, 10000>>, <<0, 0>>}}
    \cup {Frame("none", "none", <<FaceLandmarks(FaceMeshLen, "none_coordinate", 300, 9999, 0,
                                                10000, 0)>>),
          Frame("none", "none", <<>>), Frame("none", "RuntimeError", <<>>)}

\* The file at model_path.
ModelFile(exists, open, load, data) ==
    [exists |-> exists, open |-> open, load |-> load, data |-> data]

Dict(items) == [type |-> "dict", items |-> items]
EmptyDict == Dict([k \in {} |-> NoneObject])
PickledList == [type |-> "list", items |-> [k \in {} |-> NoneObject]]

Artifact(classifier, scaler) ==
    ModelFile(TRUE, "none", "none", Dict([classifier |-> classifier, scaler |-> scaler]))

Trained == Artifact(RandomForestClassifier(TRUE, 6), StandardScaler(TRUE, NUM_FEATURES))

ModelFiles ==
    {ModelFile(FALSE, "none", "none", EmptyDict),
     ModelFile(TRUE, "PermissionError", "none", EmptyDict),
     ModelFile(TRUE, "none", "UnpicklingError", EmptyDict),
     ModelFile(TRUE, "none", "none", PickledList),
     ModelFile(TRUE, "none", "none", EmptyDict),
     ModelFile(TRUE, "none", "none",
               Dict([classifier |-> RandomForestClassifier(TRUE, 6)])),
     Trained,
     Artifact(RandomForestClassifier(TRUE, 7), StandardScaler(TRUE, NUM_FEATURES)),
     Artifact(RandomForestClassifier(TRUE, 6), StandardScaler(TRUE, 42)),
     Artifact(RandomForestClassifier(FALSE, 0), StandardScaler(TRUE, NUM_FEATURES))}

\* Hand landmarks: n landmarks with their three coordinates.
Hand(n) ==
    [type |-> "NormalizedLandmarkList",
     landmark |-> [k \in 1..n |-> [x |-> 1000 * k, y |-> 2000 * k, z |-> 0 - k]]]

\* 21 landmarks of which the fifth has no z.
HandNoZ ==
    [type |-> "NormalizedLandmarkList",
     landmark |-> [k \in 1..21 |-> IF k = 5 THEN [x |-> 1000 * k, y |-> 2000 * k]
                                   ELSE [x |-> 1000 * k, y |-> 2000 * k, z |-> 0 - k]]]

HandObject == [type |-> "object", landmark |-> <<>>]
HandNone == [type |-> "NoneType", landmark |-> <<>>]

HandLandmarks == {HandNone, HandObject, HandNoZ, Hand(0), Hand(20), Hand(21), Hand(22)}

\* The scenes a frame may show.
Scenes == 1..4

GestureFrame(cvt, shape, process, hands, scene) ==
    [cvtColor |-> cvt, shape |-> shape, process |-> process, hands |-> hands, scene |-> scene]

GestureFrames ==
    {GestureFrame("none", "none", "none", <<>>, 1),
     GestureFrame("RuntimeError", "none", "none", <<>>, 1),
     GestureFrame("none", "AttributeError", "none", <<>>, 1),
     GestureFrame("none", "none", "RuntimeError", <<>>, 1),
     GestureFrame("none", "none", "none", <<Hand(20), Hand(21)>>, 1)}
    \cup {GestureFrame("none", "none", "none", <<h>>, 1) :
            h \in HandLandmarks \ {HandNone, Hand(0), Hand(21)}}
    \cup {GestureFrame("none", "none", "none", <<Hand(21)>>, scene) : scene \in Scenes}

NoGestureCall ==
    [op |-> "none", frame |-> GestureFrame("none", "none", "none", <<>>, 1),
     hand_landmarks |-> HandNone]

NoResult == [label |-> "", confidence |-> 0, exc |-> "none"]

(***************************************************************************)
(* Initial state: the application has started, the store is constructed.   *)
(***************************************************************************)
InitStore ==
    \E client_outcome \in {"ok", "RuntimeError"}, ping_outcome \in BackendOutcomes :
        LET o == MongoDBStorage_init([events |-> <<>>, next_oid |-> 0],
                                     client_outcome, ping_outcome)
        IN /\ self = o.self
           /\ mongo = o.mongo
           /\ now = 0
           /\ db = app_db(o)
           /\ args = [NoArgs EXCEPT !.op = "__init__"]
           /\ ret = o.ret
           /\ log = o.log
           /\ response = NoResponse

\* The recognizer is constructed and not used.
InitExpression ==
    /\ cv2 \in {"cv2", "None"}
    /\ face_mesh = "open"
    /\ expr_call = [op |-> "__init__", frame |-> NoFrame]
    /\ mouth_distance = Zero
    /\ eye_distance = 0
    /\ expr_steps = <<>>
    /\ expr_ret = NoResult

\* The session is constructed as GestureAIUI does, with the file it finds
\* at model_path.
InitGestureWith(files) ==
    \E f \in files :
        LET o == GestureRecognizer_init(f)
        IN /\ model_file = f
           /\ gesture_recognizer = GestureAIUI_gesture_recognizer(o)
           /\ load_model_calls = o.load_model_calls
           /\ gest_call = [NoGestureCall EXCEPT !.op = "__init__"]
           /\ gest_steps = <<>>
           /\ gest_features = NoFeatures
           /\ gest_ret = Raised(o.exc)

InitGesture == InitGestureWith(ModelFiles)

\* The effect of a call with outcome o, in the bounds of the model.
Called(o, a, resp) ==
    /\ o.mongo.next_oid <= MaxInserts
    /\ self' = o.self
    /\ mongo' = o.mongo
    /\ ret' = o.ret
    /\ log' = o.log
    /\ args' = a
    /\ response' = resp
    /\ UNCHANGED <<now, db>>
    /\ UNCHANGED exprVars
    /\ UNCHANGED gestVars
    /\ UNCHANGED uiVars

(***************************************************************************)
(* Actions: one per method of the store and per route.                     *)
(***************************************************************************)
Tick ==
    /\ now < MaxClock
    /\ now' = now + 1
    /\ UNCHANGED <<self, mongo, db, args, ret, log, response>>
    /\ UNCHANGED exprVars
    /\ UNCHANGED gestVars
    /\ UNCHANGED uiVars

InsertEvent ==
    \E in \in WithOutcomes(StoreEvents, StoreEvents) :
        Called(insert_event(self, mongo, EventDict(in[1]), in[2], now),
               [NoArgs EXCEPT !.op = "insert_event", !.event = in[1]], NoResponse)

GetEvents ==
    \E in \in WithOutcomes(ListArgs, {<<0, 0>>, <<1, 1>>}) :
        \E o \in get_events(self, mongo, in[1][1], in[1][2], in[2]) :
            Called(o, [NoArgs EXCEPT !.op = "get_events", !.limit = in[1][1],
                                     !.offset = in[1][2]],
                   NoResponse)

GetEventsByGesture ==
    \E in \in WithOutcomes((GestureArgs \X {1}) \cup ({PyStr(S_Hello)} \X {-1, 0}),
                            {<<PyStr(S_Hello), 1>>}) :
        \E o \in get_events_by_gesture(self, mongo, in[1][1], in[1][2], in[2]) :
            Called(o, [NoArgs EXCEPT !.op = "get_events_by_gesture", !.gesture = in[1][1],
                                     !.limit = in[1][2]],
                   NoResponse)

ClearEvents ==
    \E outcome \in BackendOutcomes :
        Called(clear_events(self, mongo, outcome), [NoArgs EXCEPT !.op = "clear_events"],
               NoResponse)

GetEventById ==
    \E in \in WithOutcomes(EventIdArgs, {PyStr(NewObjectId(0))}) :
        Called(get_event_by_id(self, mongo, in[1], in[2]),
               [NoArgs EXCEPT !.op = "get_event_by_id", !.event_id = in[1]], NoResponse)

Close ==
    \E outcome \in BackendOutcomes :
        Called(close(self, mongo, outcome), [NoArgs EXCEPT !.op = "close"], NoResponse)

PostLogEvent ==
    \E in \in WithOutcomes(RouteEvents, {Event(S_Hello, S_Happy, 92, PyNone),
                                         Event(S_Yes, S_Happy, 92, PyStr(<<"9">>))}) :
        LET r == log_event(db, self, mongo, in[1], in[2], now)
        IN Called(r, [NoArgs EXCEPT !.op = "POST /log_event", !.event = in[1]], r.response)

PostNaNConfidence ==
    LET r == log_event(db, self, mongo, NaNEvent, "ok", now)
    IN Called(r, [NoArgs EXCEPT !.op = "POST /log_event", !.event = NaNEvent], r.response)

GetEventsRoute ==
    \E in \in WithOutcomes(ListArgs, {<<1, 0>>, <<1000, 1>>}) :
        \E r \in get_events_route(db, self, mongo, in[1][1], in[1][2], in[2]) :
            Called(r, [NoArgs EXCEPT !.op = "GET /events", !.limit = in[1][1],
                                     !.offset = in[1][2]],
                   r.response)

DeleteEvents ==
    \E outcome \in BackendOutcomes :
        LET r == clear_events_route(db, self, mongo, outcome)
        IN Called(r, [NoArgs EXCEPT !.op = "DELETE /events"], r.response)

GetHealth ==
    Called(NoCall(self, mongo), [NoArgs EXCEPT !.op = "GET /health"], health_check(now))

RecognizeExpressionOn(frames) ==
    \E frame \in frames :
        LET o == recognize_expression(cv2, face_mesh, frame)
        IN /\ expr_call' = [op |-> "recognize", frame |-> frame]
           /\ mouth_distance' = o.mouth_distance
           /\ eye_distance' = o.eye_distance
           /\ expr_steps' = o.steps
           /\ expr_ret' = o.ret
           /\ UNCHANGED <<cv2, face_mesh>>
           /\ UNCHANGED storeVars
           /\ UNCHANGED gestVars
           /\ UNCHANGED uiVars

RecognizeExpression == RecognizeExpressionOn(Frames)

RecognizeFace == RecognizeExpressionOn(FaceFrames)

CloseExpression ==
    LET o == close_expression(face_mesh)
    IN /\ face_mesh' = o.face_mesh
       /\ expr_call' = [op |-> "close", frame |-> NoFrame]
       /\ expr_ret' = [NoResult EXCEPT !.exc = o.exc]
       /\ expr_steps' = o.log
       /\ UNCHANGED <<cv2, mouth_distance, eye_distance>>
       /\ UNCHANGED storeVars
       /\ UNCHANGED gestVars
       /\ UNCHANGED uiVars

vars == <<self, mongo, now, db, args, ret, log, response,
          cv2, face_mesh, expr_call, mouth_distance, eye_distance, expr_steps, expr_ret,
          model_file, gesture_recognizer, load_model_calls, gest_call, gest_steps,
          gest_features, gest_ret, ui, pc, run_frame, cleanup_steps, posted>>

RecognizeGesture ==
    /\ ~gesture_recognizer.is_none
    /\ \E frame \in GestureFrames :
        LET o == recognize_gesture(gesture_recognizer, cv2, frame)
        IN /\ gest_call' = [NoGestureCall EXCEPT !.op = "recognize", !.frame = frame]
           /\ gest_steps' = o.steps
           /\ gest_ret' = o.ret
    /\ UNCHANGED <<model_file, gesture_recognizer, load_model_calls, gest_features>>
    /\ UNCHANGED storeVars
    /\ UNCHANGED exprVars
    /\ UNCHANGED uiVars

ExtractLandmarks ==
    /\ ~gesture_recognizer.is_none
    /\ \E hand_landmarks \in HandLandmarks :
        LET o == extract_landmarks(hand_landmarks)
        IN /\ gest_call' = [NoGestureCall EXCEPT !.op = "extract_landmarks",
                                                 !.hand_landmarks = hand_landmarks]
           /\ gest_features' = o
           /\ gest_ret' = Raised(o.exc)
    /\ gest_steps' = <<>>
    /\ UNCHANGED <<model_file, gesture_recognizer, load_model_calls>>
    /\ UNCHANGED storeVars
    /\ UNCHANGED exprVars
    /\ UNCHANGED uiVars

CloseGesture ==
    /\ ~gesture_recognizer.is_none
    /\ LET o == close_gesture(gesture_recognizer)
       IN /\ gesture_recognizer' = [gesture_recognizer EXCEPT !.hands = o.self.hands]
          /\ gest_ret' = Raised(o.exc)
    /\ gest_call' = [NoGestureCall EXCEPT !.op = "close"]
    /\ gest_steps' = close_gesture(gesture_recognizer).log
    /\ UNCHANGED <<model_file, load_model_calls, gest_features>>
    /\ UNCHANGED storeVars
    /\ UNCHANGED exprVars
    /\ UNCHANGED uiVars

(***************************************************************************)
(* The UI: GestureAIUI is constructed, run() is called once.               *)
(***************************************************************************)
\* What requests.get(/health) does: the backend answers, a proxy answers
\* 503, nothing listens.
Probes ==
    {[status |-> health_check(0).status, exc |-> "none"],
     [status |-> 503, exc |-> "none"],
     [status |-> 0, exc |-> "ConnectionError"]}

\* What requests.post(/log_event) does.
Posts ==
    {[status |-> 200, exc |-> "none"],
     [status |-> 400, exc |-> "none"],
     [status |-> 0, exc |-> "ConnectionError"]}

ReadOk == [ret |-> TRUE, exc |-> "none"]

Reads == {ReadOk, [ret |-> FALSE, exc |-> "none"], [ret |-> FALSE, exc |-> "RuntimeError"]}

NoFault == [step |-> "none", exc |-> "none"]

Faults ==
    {NoFault,
     [step |-> "flip", exc |-> "RuntimeError"],
     [step |-> "fps", exc |-> "ZeroDivisionError"],
     [step |-> "draw_overlay", exc |-> "RuntimeError"],
     [step |-> "imshow", exc |-> "RuntimeError"],
     [step |-> "waitKey", exc |-> "KeyboardInterrupt"]}

Keys == {"q", "r", "none"}

\* A frame as the two recognizers see it: a hand and a happy face, nobody,
\* a provider that raises, a hand of 20 landmarks, an interrupt that arrives
\* while the hand provider runs.
UIFrames ==
    {<<GestureFrame("none", "none", "none", <<Hand(21)>>, 1),
       Frame("none", "none", <<FaceLandmarks(FaceMeshLen, "ok", 300, 9999, 0, 10000, 0)>>)>>,
     <<GestureFrame("none", "none", "none", <<>>, 1), Frame("none", "none", <<>>)>>,
     <<GestureFrame("none", "none", "RuntimeError", <<>>, 1), Frame("none", "none", <<>>)>>,
     <<GestureFrame("none", "none", "none", <<Hand(20)>>, 1), Frame("none", "none", <<>>)>>,
     <<GestureFrame("none", "none", "KeyboardInterrupt", <<>>, 1),
       Frame("none", "none", <<>>)>>}

PostOk == [status |-> 200, exc |-> "none"]

\* What happens during one iteration: every frame with every key, the
\* record key with every answer of the API, every fault with the keys that
\* would act, and the reads that give no frame.
IterationInputs ==
    {[read |-> ReadOk, gframe |-> f[1], fframe |-> f[2], fault |-> NoFault, key |-> key,
      post |-> PostOk] : f \in UIFrames, key \in Keys}
    \cup {[read |-> ReadOk, gframe |-> f[1], fframe |-> f[2], fault |-> NoFault,
           key |-> "r", post |-> post] : f \in UIFrames, post \in Posts}
    \cup {[read |-> ReadOk, gframe |-> f[1], fframe |-> f[2], fault |-> fault, key |-> key,
           post |-> PostOk] :
            f \in {g \in UIFrames : Len(g[1].hands) = 1}, fault \in Faults,
            key \in {"q", "r"}}
    \cup {[read |-> read, gframe |-> NoGestureCall.frame, fframe |-> NoFrame,
           fault |-> NoFault, key |-> "none", post |-> PostOk] :
            read \in Reads \ {ReadOk}}

CleanupInputs ==
    {[release |-> "none", destroy |-> "none"],
     [release |-> "RuntimeError", destroy |-> "none"],
     [release |-> "none", destroy |-> "RuntimeError"]}

\* The locals of run() before the first frame.
NoLocals ==
    [api_available |-> FALSE, gesture |-> "Unknown", gesture_conf |-> 0,
     expression |-> "Unknown", key |-> "none", steps |-> <<>>, exc |-> "none"]

\* The application is constructed and run() is not called.
InitIdleUI ==
    /\ ui = GestureAIUI_init("opened", "HUDRenderer", "FacialExpressionRecognizer")
    /\ pc = "constructed"
    /\ run_frame = NoLocals
    /\ cleanup_steps = <<>>
    /\ posted = {}

\* GestureAIUI.__init__: each part is constructed or, when its constructor
\* raised, left None.
InitUI ==
    /\ InitStore
    /\ self.client = "None"
    /\ InitExpression
    /\ cv2 = "cv2"
    /\ InitGestureWith({Trained, ModelFile(FALSE, "none", "none", EmptyDict),
                        ModelFile(TRUE, "none", "UnpicklingError", EmptyDict)})
    /\ \E camera \in {"None", "closed", "opened"}, hud \in {"None", "HUDRenderer"},
          facial_recognizer \in {"None", "FacialExpressionRecognizer"} :
            ui = GestureAIUI_init(camera, hud, facial_recognizer)
    /\ pc = "constructed"
    /\ run_frame = NoLocals
    /\ cleanup_steps = <<>>
    /\ posted = {}

\* run() up to the loop.
Run ==
    /\ pc = "constructed"
    /\ \E probe \in Probes :
        LET o == run_start(ui, probe)
        IN /\ ui' = o.ui
           /\ run_frame' = [run_frame EXCEPT !.api_available = o.api_available]
           /\ pc' = IF o.returned THEN "returned" ELSE "while"
    /\ UNCHANGED <<cleanup_steps, posted>>
    /\ UNCHANGED storeVars
    /\ UNCHANGED exprVars
    /\ UNCHANGED gestVars

\* One iteration of the loop: the flag is tested and a frame is processed.
Iterate ==
    /\ pc = "while"
    /\ while_test(ui.running)
    /\ ui.frame_count < MaxFrames
    /\ \E in \in IterationInputs :
        \E o \in {iteration(ui, gesture_recognizer, face_mesh, cv2, run_frame.api_available,
                            posted, in)} :
        LET ran(s) == \E i \in 1..Len(o.steps) : o.steps[i] = s
        IN /\ ui' = o.ui
           /\ run_frame' = [api_available |-> run_frame.api_available,
                            gesture |-> o.gesture, gesture_conf |-> o.gesture_conf,
                            expression |-> o.expression, key |-> o.key, steps |-> o.steps,
                            exc |-> o.exc]
           /\ posted' = o.posted
           /\ pc' = IF o.propagates THEN "raised"
                    ELSE IF o.break THEN "after_loop" ELSE "while"
           /\ IF ran("gesture_recognizer.recognize")
              THEN /\ gest_call' = [NoGestureCall EXCEPT !.op = "recognize",
                                                         !.frame = in.gframe]
                   /\ gest_steps' = o.g.steps
                   /\ gest_ret' = o.g.ret
              ELSE UNCHANGED <<gest_call, gest_steps, gest_ret>>
           /\ IF ran("facial_recognizer.recognize")
              THEN /\ expr_call' = [op |-> "recognize", frame |-> in.fframe]
                   /\ mouth_distance' = o.x.mouth_distance
                   /\ eye_distance' = o.x.eye_distance
                   /\ expr_steps' = o.x.steps
                   /\ expr_ret' = o.x.ret
              ELSE UNCHANGED <<expr_call, mouth_distance, eye_distance, expr_steps, expr_ret>>
    /\ UNCHANGED <<cleanup_steps, cv2, face_mesh>>
    /\ UNCHANGED <<model_file, gesture_recognizer, load_model_calls, gest_features>>
    /\ UNCHANGED storeVars

\* The flag is tested and found cleared.
LeaveLoop ==
    /\ pc = "while"
    /\ ~while_test(ui.running)
    /\ pc' = "after_loop"
    /\ UNCHANGED <<ui, run_frame, cleanup_steps, posted>>
    /\ UNCHANGED storeVars
    /\ UNCHANGED exprVars
    /\ UNCHANGED gestVars

\* self.cleanup() after the loop, and the return of run().
Cleanup ==
    /\ pc = "after_loop"
    /\ \E in \in CleanupInputs :
        \E o \in {cleanup(ui, gesture_recognizer, face_mesh, in)} :
           /\ ui' = o.ui
           /\ gesture_recognizer' = o.gesture_recognizer
           /\ face_mesh' = o.face_mesh
           /\ cleanup_steps' = o.steps
           /\ pc' = IF o.exc = "none" THEN "returned" ELSE "raised"
    /\ UNCHANGED <<run_frame, posted>>
    /\ UNCHANGED <<cv2, expr_call, mouth_distance, eye_distance, expr_steps, expr_ret>>
    /\ UNCHANGED <<model_file, load_model_calls, gest_call, gest_steps, gest_features, gest_ret>>
    /\ UNCHANGED storeVars

NextUI ==
    \/ Run
    \/ Iterate
    \/ LeaveLoop
    \/ Cleanup

SpecUI == InitUI /\ [][NextUI]_vars

\* The thread that runs run() goes on: it tests the flag when it is at the
\* test, and it runs cleanup() when it has left the loop.
SpecUILive == SpecUI /\ WF_vars(LeaveLoop) /\ WF_vars(Cleanup)

\* The store, called directly.
Init ==
    /\ InitIdleUI
    /\ InitStore
    /\ InitExpression
    /\ cv2 = "cv2"
    /\ InitGestureWith({Trained})

Next ==
    \/ Tick
    \/ InsertEvent
    \/ GetEvents
    \/ GetEventsByGesture
    \/ ClearEvents
    \/ GetEventById
    \/ Close

Spec == Init /\ [][Next]_vars

\* The store behind the HTTP routes.
NextApi ==
    \/ Tick
    \/ PostLogEvent
    \/ PostNaNConfidence
    \/ GetEventsRoute
    \/ DeleteEvents
    \/ GetHealth

SpecApi == Init /\ [][NextApi]_vars

\* The routes together with the methods of the store they call.
NextService ==
    \/ Tick
    \/ PostLogEvent
    \/ GetEventsRoute
    \/ DeleteEvents
    \/ GetHealth
    \/ InsertEvent
    \/ GetEvents
    \/ ClearEvents

SpecService == Init /\ [][NextService]_vars

\* The expression recognizer, the store being offline.
InitRecognizer ==
    /\ InitIdleUI
    /\ InitStore
    /\ self.client = "None"
    /\ InitExpression
    /\ InitGestureWith({Trained})

NextExpression ==
    \/ RecognizeExpression
    \/ CloseExpression

SpecExpression == InitRecognizer /\ [][NextExpression]_vars

\* Both recognizers of a session, the store being offline and the model file
\* any of ModelFiles.
InitRecognizers ==
    /\ InitIdleUI
    /\ InitStore
    /\ self.client = "None"
    /\ InitExpression
    /\ InitGesture

NextRecognizers ==
    \/ RecognizeGesture
    \/ ExtractLandmarks
    \/ CloseGesture
    \/ RecognizeFace
    \/ CloseExpression

SpecRecognizers == InitRecognizers /\ [][NextRecognizers]_vars

(***************************************************************************)
(* Properties of the event store.                                          *)
(***************************************************************************)
Offline == self.events_collection = "None"
Connected == self.events_collection = "Collection"
Succeeded == ret.backend_calls = 1 /\ \A i \in 1..Len(log) : log[i].level # "error"
Failed == \E i \in 1..Len(log) : log[i].level = "error"

\* C1 (as claimed): on an offline store insert_event returns a non-null
\* placeholder identifier, persists nothing and does not raise.
C1_OfflineInsertReturnsPlaceholder ==
    (args.op = "insert_event" /\ Offline) =>
        /\ ~ret.is_none /\ ret.id # <<>>
        /\ ret.exc = "none"
        /\ ret.backend_calls = 0 /\ mongo.events = <<>>

\* C1 (amended): on an offline store insert_event returns None for every
\* event, without calling the backend, persisting anything or raising.
C1_OfflineInsertReturnsNone ==
    (args.op = "insert_event" /\ Offline) =>
        /\ ret.is_none /\ ret.id = <<>>
        /\ ret.exc = "none"
        /\ ret.backend_calls = 0 /\ mongo.events = <<>> /\ mongo.next_oid = 0

C1_Witness ==
    /\ args.op = "insert_event" /\ Offline /\ self.client = "open"
    /\ args.event.timestamp = PyNone /\ ret.is_none

\* C2: on an offline store, after any sequence of operations, get_events
\* returns the empty list for every limit and offset and clear_events returns
\* False; neither raises nor calls the backend.
C2_OfflineListAndClear ==
    Offline =>
        /\ args.op \in {"get_events", "clear_events"} =>
              /\ ret.events = <<>> /\ ~ret.ok /\ ret.exc = "none" /\ ret.backend_calls = 0
              /\ mongo.events = <<>>

C2_Witness ==
    /\ Offline /\ self.client = "closed"
    /\ args.op = "get_events" /\ args.limit = 5000 /\ args.offset = 1
    /\ ret.events = <<>>

\* C3: the connected/offline state set by the constructor is never changed by
\* a later call, whether it succeeds or fails, and no call retries the backend.
C3_StateDecidedOnce ==
    [][/\ self'.events_collection = self.events_collection
       /\ self'.db = self.db
       /\ ret'.backend_calls <= 1]_vars

C3_Witness ==
    /\ Connected /\ self.client = "closed"
    /\ args.op = "insert_event" /\ ret.is_none /\ ret.backend_calls = 1

\* C4: no operation of the store, the constructor included, lets an exception
\* reach its caller, whatever the backend does; a failure gives the degraded
\* value of the operation (None, the empty list, False).
C4_NoExceptionPropagates ==
    /\ ret.exc = "none"
    /\ Failed =>
          /\ ret.id = <<>> /\ ret.events = <<>> /\ ~ret.ok
          /\ ret.op \in {"__init__", "insert_event", "get_event_by_id", "close"} => ret.is_none

C4_Witness ==
    /\ Connected /\ mongo.events # <<>>
    /\ args.op = "get_events" /\ ret.backend_calls = 1
    /\ log = <<LogRec("error", "Error retrieving events")>>
    /\ ret.events = <<>>

\* The last call inserted an event: insert_event, directly or through the
\* route, returned an identifier.
Inserted ==
    /\ args.op \in {"insert_event", "POST /log_event"}
    /\ Connected /\ ret.op = "insert_event" /\ ret.exc = "none" /\ ~ret.is_none

InsertedDoc == CHOOSE d \in {mongo.events[i] : i \in 1..Len(mongo.events)} : d["_id"] = ret.id

\* get_events(limit=1, offset=0) returns exactly d.
ListedFirst(d) ==
    \A o \in get_events(self, mongo, 1, 0, "ok") : o.ret.exc = "none" /\ o.ret.events = <<d>>

\* d carries the fields of the event given to the last call; a timestamp
\* that was not supplied is one the clock gave.
FieldsMatch(d) ==
    /\ d.gesture = args.event.gesture
    /\ d.expression = args.event.expression
    /\ d.confidence = args.event.confidence
    /\ IF Truthy(args.event.timestamp) THEN d.timestamp = args.event.timestamp.val
       ELSE \E t \in 0..now : d.timestamp = isoformat(t)

Newest(d) ==
    \A i \in 1..Len(mongo.events) :
        mongo.events[i] # d => StrLess(mongo.events[i].timestamp, d.timestamp)

\* C5 (as claimed): on a connected store holding any earlier events, after an
\* event is inserted get_events(limit=1, offset=0) returns exactly that event,
\* with the gesture, expression, confidence and timestamp inserted.
C5_RoundTrip ==
    Inserted =>
        /\ \E i \in 1..Len(mongo.events) : mongo.events[i]["_id"] = ret.id
        /\ ListedFirst(InsertedDoc) /\ FieldsMatch(InsertedDoc)

\* C5 (amended): the same, provided the timestamp of the inserted event is
\* strictly greater (as a string) than the timestamp of every event stored
\* before; the stored event always carries the inserted fields.
C5_RoundTripOfNewest ==
    Inserted =>
        /\ \E i \in 1..Len(mongo.events) : mongo.events[i]["_id"] = ret.id
        /\ FieldsMatch(InsertedDoc)
        /\ Newest(InsertedDoc) => ListedFirst(InsertedDoc)

C5_Witness ==
    /\ Inserted /\ Len(mongo.events) = 2 /\ Newest(InsertedDoc)
    /\ args.event.timestamp = PyNone
    /\ ListedFirst(InsertedDoc)

\* The validation of limit and offset, restated.
ValidLimit(limit) == IF limit < 1 THEN 1 ELSE IF limit > 1000 THEN 1000 ELSE limit
ValidOffset(offset) == IF offset < 0 THEN 0 ELSE offset

IsOrderingOf(s, events) ==
    /\ Len(s) = Len(events)
    /\ \E p \in [1..Len(s) -> 1..Len(s)] :
          /\ \A i, j \in 1..Len(s) : p[i] = p[j] => i = j
          /\ \A i \in 1..Len(s) : s[i] = events[p[i]]

NewestFirst(s) ==
    \A i, j \in 1..Len(s) : i < j => ~StrLess(s[i].timestamp, s[j].timestamp)

Drop(s, n) == [i \in 1..(IF Len(s) > n THEN Len(s) - n ELSE 0) |-> s[i + n]]
Take(s, n) == [i \in 1..(IF Len(s) < n THEN Len(s) ELSE n) |-> s[i]]

AllOrderings(events) ==
    {s \in [1..Len(events) -> {events[i] : i \in 1..Len(events)}] : IsOrderingOf(s, events)}

\* C6: on a connected store a get_events(limit, offset) that the backend
\* serves returns the stored events sorted on timestamp, newest first, without
\* the first `offset` of them and cut to `limit` events (limit and offset as
\* validated: limit in 1..1000, offset not negative).
C6_ListIsSortedSkippedLimited ==
    (args.op = "get_events" /\ Connected /\ Succeeded) =>
        /\ NewestFirst(ret.events)
        /\ Len(ret.events) <= ValidLimit(args.limit)
        /\ \E s \in AllOrderings(mongo.events) :
              /\ NewestFirst(s)
              /\ ret.events = Take(Drop(s, ValidOffset(args.offset)), ValidLimit(args.limit))

C6_Witness ==
    /\ args.op = "get_events" /\ Connected /\ Succeeded
    /\ args.limit = 1 /\ args.offset = 1
    /\ Len(mongo.events) = 2
    /\ StrLess(mongo.events[1].timestamp, mongo.events[2].timestamp)
    /\ ret.events = <<mongo.events[1]>>

Min(a, b) == IF a < b THEN a ELSE b

\* C7 (as claimed): every list request, whatever its limit and offset, is
\* served rather than rejected, and returns no more events than the clamp
\* bound.
C7_EveryListRequestServed ==
    /\ args.op = "get_events" => ret.exc = "none" /\ Len(ret.events) <= 1000
    /\ args.op = "GET /events" => response.status = 200 /\ Len(response.events) <= 1000

\* C7 (amended): MongoDBStorage.get_events serves every limit and offset,
\* with limit clamped into 1..1000 and a negative offset taken as 0, and
\* returns no more events than the clamped limit; the route GET /events does
\* not clamp: it answers 400 without calling the store when limit is outside
\* 1..1000 or offset is negative, and serves the request otherwise.
C7_StoreClampsRouteRejects ==
    /\ args.op = "get_events" =>
          /\ ret.exc = "none"
          /\ Len(ret.events) <= ValidLimit(args.limit)
          /\ (Connected /\ Succeeded) =>
                Len(ret.events) = Min(ValidLimit(args.limit),
                                      Len(Drop(mongo.events, ValidOffset(args.offset))))
    /\ args.op = "GET /events" =>
          IF args.limit >= 1 /\ args.limit <= 1000 /\ args.offset >= 0
          THEN response.status = 200 /\ Len(response.events) <= args.limit
          ELSE response.status = 400 /\ ret.op = "none"

C7_Witness ==
    /\ args.op = "get_events" /\ Connected /\ Succeeded
    /\ args.limit = 0 /\ args.offset = -1
    /\ Len(mongo.events) = 2 /\ Len(ret.events) = 1

\* C8: on a connected store a clear_events that the backend serves returns
\* True and leaves no event: get_events then returns the empty list for every
\* limit and offset; an event inserted later is listed again.
C8_ClearDeletesAll ==
    /\ (args.op = "clear_events" /\ Connected) => (ret.ok <=> Succeeded)
    /\ (args.op = "clear_events" /\ Connected /\ ret.ok) =>
          /\ mongo.events = <<>>
          /\ \A limit \in Limits, offset \in Offsets :
                \A o \in get_events(self, mongo, limit, offset, "ok") : o.ret.events = <<>>
    /\ (args.op = "insert_event" /\ Connected /\ ~ret.is_none) =>
          \A o \in get_events(self, mongo, 1000, 0, "ok") :
              \E i \in 1..Len(o.ret.events) : o.ret.events[i]["_id"] = ret.id

C8_Witness ==
    /\ args.op = "insert_event" /\ Connected /\ ~ret.is_none
    /\ mongo.next_oid = 2 /\ Len(mongo.events) = 1
    /\ mongo.events[1]["_id"] = ret.id

(***************************************************************************)
(* Properties of the expression recognizer.                                *)
(***************************************************************************)
\* The last recognize found a face with a full, well-formed landmark list and
\* measured its mouth and eye.
Measured ==
    /\ expr_call.op = "recognize"
    /\ Len(expr_call.frame.faces) > 0
    /\ expr_call.frame.faces[1].kind = "ok" /\ expr_call.frame.faces[1].len = FaceMeshLen
    /\ expr_steps = <<"cvtColor", "process", "extract_mouth_distance", "extract_eye_distance">>
    /\ expr_ret.exc = "none" /\ expr_ret.label # "Error"

\* mouth_distance = t / 1000
MouthIs(t) == 1000 * mouth_distance.num = t * mouth_distance.den
MouthAbove(t) == 1000 * mouth_distance.num > t * mouth_distance.den
MouthBelow(t) == 1000 * mouth_distance.num < t * mouth_distance.den

Returned(label, confidence) == expr_ret.label = label /\ expr_ret.confidence = confidence

\* C9 (as claimed): m > 0.15 gives (Happy, 0.85); 0.08 < m <= 0.15 and
\* e < 0.25 gives (Angry, 0.80); m < 0.05 and e < 0.20 gives (Sad, 0.75);
\* otherwise (Neutral, 0.90).
C9_SpecTable ==
    Measured =>
        IF MouthAbove(150) THEN Returned("Happy", 85)
        ELSE IF MouthAbove(80) /\ eye_distance < 25000 THEN Returned("Angry", 80)
        ELSE IF MouthBelow(50) /\ eye_distance < 20000 THEN Returned("Sad", 75)
        ELSE Returned("Neutral", 90)

\* C9 (amended): m > 0.02 and e > 0.01 gives (Happy, 0.85); m < 0.01 and
\* e < 0.008 gives (Sad, 0.80); m > 0.015 and e < 0.009 gives (Angry, 0.75);
\* otherwise (Neutral, 0.90).  In particular m = 0.20, e = 0.30 gives
\* (Happy, 0.85).
C9_CodeTable ==
    Measured =>
        /\ (MouthAbove(20) /\ eye_distance > 1000) => Returned("Happy", 85)
        /\ (MouthBelow(10) /\ eye_distance < 800) => Returned("Sad", 80)
        /\ (MouthAbove(15) /\ eye_distance < 900) => Returned("Angry", 75)
        /\ ~(MouthAbove(20) /\ eye_distance > 1000)
           /\ ~(MouthBelow(10) /\ eye_distance < 800)
           /\ ~(MouthAbove(15) /\ eye_distance < 900) => Returned("Neutral", 90)
        /\ (MouthIs(200) /\ eye_distance = 30000) => Returned("Happy", 85)

C9_Witness ==
    /\ Measured /\ MouthAbove(15) /\ ~MouthAbove(20) /\ eye_distance = 850
    /\ Returned("Angry", 75)

\* C10 (as claimed): a face with mouth ratio 0.03 and eye ratio 0.10 gives
\* (Sad, 0.75).
C10_BoundaryIsSad ==
    (Measured /\ MouthIs(30) /\ eye_distance = 10000) => Returned("Sad", 75)

\* C10 (amended): a face with mouth ratio 0.03 and eye ratio 0.10 gives
\* (Happy, 0.85).
C10_BoundaryIsHappy ==
    (Measured /\ MouthIs(30) /\ eye_distance = 10000) => Returned("Happy", 85)

C10_Witness ==
    /\ Measured /\ MouthIs(30) /\ eye_distance = 10000
    /\ mouth_distance = Fraction(300, 10000)
    /\ Returned("Happy", 85)

(***************************************************************************)
(* Properties of the recognizers.                                          *)
(***************************************************************************)
Range(seq) == {seq[i] : i \in DOMAIN seq}

GestureRecognized == gest_call.op = "recognize"
FaceRecognized == expr_call.op = "recognize"

\* The last recognize ran the hands provider, which found no hand.
NoHandFound ==
    /\ GestureRecognized
    /\ "process" \in Range(gest_steps)
    /\ gesture_recognizer.hands = "open" /\ gest_call.frame.process = "none"
    /\ Len(gest_call.frame.hands) = 0

\* The last recognize ran the face mesh, which found no face.
NoFaceFound ==
    /\ FaceRecognized
    /\ "process" \in Range(expr_steps)
    /\ face_mesh = "open" /\ expr_call.frame.process = "none"
    /\ Len(expr_call.frame.faces) = 0

\* The label and confidence a fitted classifier stands for: the most probable
\* class, the first one among equals.
MostProbable(probabilities) ==
    LET best == CHOOSE i \in DOMAIN probabilities :
                    /\ \A j \in DOMAIN probabilities : probabilities[j] <= probabilities[i]
                    /\ \A j \in 1..(i - 1) : probabilities[j] < probabilities[i]
    IN [label |-> GESTURES[best], confidence |-> probabilities[best], exc |-> "none"]

\* A frame showing one well-formed hand, given to a recognizer holding a
\* trained model.
GoodHandFrame(frame) ==
    /\ model_file = Trained
    /\ frame.cvtColor = "none" /\ frame.shape = "none" /\ frame.process = "none"
    /\ frame.hands = <<Hand(21)>>

HappyFaceFrame(frame) ==
    /\ cv2 = "cv2"
    /\ frame = Frame("none", "none", <<FaceLandmarks(FaceMeshLen, "ok", 300, 9999, 0, 10000, 0)>>)

\* C11: when the provider finds no target, recognize returns the no-target
\* sentinel with confidence 0.0 ("No Hand" for gestures, "Unknown" for
\* expressions) and runs neither feature extraction nor classification; the
\* frame that follows is processed normally: a well-formed hand is classified
\* by the model, a happy face is recognized as such.
C11_NoTargetSentinel ==
    /\ NoHandFound =>
        /\ gest_ret = Result("No Hand", 0)
        /\ Range(gest_steps) \cap {"extract_landmarks", "transform", "predict_proba"} = {}
    /\ NoFaceFound =>
        /\ expr_ret = Result("Unknown", 0)
        /\ Range(expr_steps) \cap {"extract_mouth_distance", "extract_eye_distance"} = {}

C11_NextFrameNormal ==
    /\ (NoHandFound /\ gest_call'.op = "recognize" /\ gest_call' # gest_call
            /\ GoodHandFrame(gest_call'.frame))
        => gest_ret' = MostProbable(Probabilities(6, gest_call'.frame.scene))
    /\ (NoFaceFound /\ expr_call'.op = "recognize" /\ expr_call' # expr_call
            /\ HappyFaceFrame(expr_call'.frame))
        => expr_ret' = Result("Happy", 85)

C11_NoTargetShortCircuits == []C11_NoTargetSentinel /\ [][C11_NextFrameNormal]_vars

C11_Witness ==
    /\ NoHandFound /\ gest_ret = Result("No Hand", 0) /\ model_file = Trained
    /\ NoFaceFound /\ expr_ret = Result("Unknown", 0)

\* C12: every label a recognizer returns, the sentinels included, is a member
\* of its vocabulary: GESTURES for gestures, EXPRESSIONS for expressions.
C12_LabelsInVocabulary ==
    /\ (GestureRecognized /\ gest_ret.exc = "none") => gest_ret.label \in Range(GESTURES)
    /\ (FaceRecognized /\ expr_ret.exc = "none") => expr_ret.label \in Range(EXPRESSIONS)

\* C13: for every frame and every outcome of the model and the providers,
\* both recognizers return a pair whose confidence lies in [0, 1].
C13_ConfidenceInRange ==
    /\ GestureRecognized =>
        /\ gest_ret.exc = "none"
        /\ gest_ret.confidence \in 0..100
    /\ FaceRecognized =>
        /\ expr_ret.exc = "none"
        /\ expr_ret.confidence \in 0..100

C13_Witness ==
    /\ GestureRecognized /\ GoodHandFrame(gest_call.frame) /\ gest_ret.confidence = 50
    /\ FaceRecognized /\ expr_ret = Result("Happy", 85)

\* A landmark list extract_landmarks can flatten: 21 landmarks, each with x, y
\* and z.
WellFormed(hand_landmarks) ==
    /\ hand_landmarks.type = "NormalizedLandmarkList"
    /\ Len(hand_landmarks.landmark) = 21
    /\ \A k \in 1..21 : DOMAIN hand_landmarks.landmark[k] = {"x", "y", "z"}

\* array holds x, y and z of each landmark, in the order of the landmarks.
Flattens(array, landmark) ==
    /\ array.shape = <<1, 63>> /\ Len(array.data) = 63
    /\ \A k \in 1..21 :
        /\ array.data[3 * k - 2] = landmark[k].x
        /\ array.data[3 * k - 1] = landmark[k].y
        /\ array.data[3 * k] = landmark[k].z

HandWithoutFeatures ==
    /\ GestureRecognized
    /\ "extract_landmarks" \in Range(gest_steps)
    /\ ~WellFormed(gest_call.frame.hands[1])

\* C15: when a hand is detected and feature extraction returns None,
\* recognize returns ("Unknown", 0.0) and runs neither the scaler nor the
\* classifier.
C15_NoFeaturesGiveUnknown ==
    HandWithoutFeatures =>
        /\ gest_ret = Result("Unknown", 0)
        /\ Range(gest_steps) \cap {"transform", "predict_proba"} = {}

\* The hands provider, the scaler or the classifier raised in the last
\* recognize.
GestureRaised ==
    /\ GestureRecognized
    /\ \/ /\ "process" \in Range(gest_steps)
          /\ gesture_recognizer.hands = "closed" \/ gest_call.frame.process # "none"
       \/ /\ "transform" \in Range(gest_steps)
          /\ \/ ~gesture_recognizer.scaler.fitted
             \/ gesture_recognizer.scaler.n # 63
             \/ ~gesture_recognizer.classifier.fitted

\* The face mesh raised in the last recognize.
FaceRaised ==
    /\ FaceRecognized
    /\ "process" \in Range(expr_steps)
    /\ face_mesh = "closed" \/ expr_call.frame.process # "none"

\* C16: recognize never lets an exception reach its caller, whatever the
\* provider, the scaler and the classifier do, and returns ("Error", 0.0)
\* when one of them raises.
C16_RecognizeNeverRaises ==
    /\ GestureRecognized => gest_ret.exc = "none"
    /\ FaceRecognized => expr_ret.exc = "none"
    /\ GestureRaised => gest_ret = Result("Error", 0)
    /\ FaceRaised => expr_ret = Result("Error", 0)

C16_Witness ==
    /\ GestureRaised /\ "transform" \in Range(gest_steps) /\ gest_ret = Result("Error", 0)
    /\ FaceRaised /\ expr_ret = Result("Error", 0)

\* The file at model_path exists and is opened, and unpickling it fails
\* (a corrupt file) or gives no dict (a wrong content type).
Undeserializable ==
    /\ model_file.exists /\ model_file.open = "none"
    /\ model_file.load # "none" \/ model_file.data.type # "dict"

\* The file at model_path exists and cannot be opened.
Unreadable == model_file.exists /\ model_file.open # "none"

HoldsDefaultModel ==
    /\ gesture_recognizer.classifier = RandomForestClassifier(FALSE, 0)
    /\ gesture_recognizer.scaler = StandardScaler(FALSE, 0)

\* C17 as claimed: when the artifact cannot be deserialized, load_model falls
\* back to the default model and the GestureRecognizer is constructed.
C17_LoadFailureFallsBack ==
    Undeserializable =>
        /\ ~gesture_recognizer.is_none
        /\ HoldsDefaultModel
        /\ gest_call.op = "__init__" => gest_ret.exc = "none"

\* C17: when the artifact cannot be opened or deserialized, load_model raises
\* the exception again and GestureRecognizer() fails; GestureAIUI catches it
\* and runs without a gesture recognizer.  Only a missing file gives the
\* default model, without raising.
C17_LoadFailureFailsConstruction ==
    /\ (Undeserializable \/ Unreadable) =>
        /\ gesture_recognizer.is_none
        /\ gest_call.op = "__init__" /\ gest_ret.exc # "none"
    /\ ~model_file.exists =>
        /\ ~gesture_recognizer.is_none
        /\ HoldsDefaultModel
        /\ gest_call.op = "__init__" => gest_ret.exc = "none"

C17_Witness ==
    /\ model_file.exists /\ model_file.load = "UnpicklingError"
    /\ gesture_recognizer.is_none /\ gest_ret.exc = "UnpicklingError"
    /\ FaceRecognized

\* The last recognize ran on the default model of a missing file.
OnPlaceholder == ~model_file.exists /\ GestureRecognized

\* C18 as claimed: with no artifact at the model path, recognize calls neither
\* scaler.transform nor classifier.predict_proba on the default model.
C18_PlaceholderNeverInvoked ==
    OnPlaceholder => Range(gest_steps) \cap {"transform", "predict_proba"} = {}

\* C18: with no artifact at the model path, recognize never returns a
\* prediction of the default model: for a detected hand it calls
\* scaler.transform, which raises on the unfit scaler, and returns
\* ("Error", 0.0) without calling classifier.predict_proba.
C18_PlaceholderGivesNoPrediction ==
    OnPlaceholder =>
        /\ gest_ret.label \notin Range(GESTURES) /\ gest_ret.confidence = 0
        /\ "predict_proba" \notin Range(gest_steps)
        /\ ("process" \in Range(gest_steps) /\ gest_call.frame.process = "none"
                /\ gesture_recognizer.hands = "open" /\ Len(gest_call.frame.hands) > 0
                /\ WellFormed(gest_call.frame.hands[1]))
            => /\ "transform" \in Range(gest_steps)
               /\ gest_ret = Result("Error", 0)

C18_Witness ==
    /\ OnPlaceholder /\ gest_call.frame.hands = <<Hand(21)>>
    /\ "transform" \in Range(gest_steps) /\ gest_ret = Result("Error", 0)

\* The entry of the artifact for key, None when it has none.
Entry(key) ==
    IF key \in DOMAIN model_file.data.items THEN model_file.data.items[key] ELSE NoneObject

C20_CloseIsIdempotent ==
    /\ gest_call.op = "close" => gest_ret.exc = "none" /\ gesture_recognizer.hands = "closed"
    /\ expr_call.op = "close" => expr_ret.exc = "none" /\ face_mesh = "closed"

\* Both recognizers were closed when already closed: the providers raised and
\* the handlers logged it.
C20_Witness ==
    /\ gest_call.op = "close" /\ gest_steps = <<"logger.error">> /\ gest_ret.exc = "none"
    /\ expr_call.op = "close" /\ expr_steps = <<"logger.error">> /\ expr_ret.exc = "none"

(***************************************************************************)
(* Properties of closed sessions and of malformed faces.                   *)
(***************************************************************************)
\* The last recognize ran on a session that had been closed.
RecognizedAfterClose == GestureRecognized /\ gesture_recognizer.hands = "closed"

\* C22 as claimed: recognize on a session after close() fails with a typed
\* error instead of returning a result.
C22_RecognizeAfterCloseRaises ==
    RecognizedAfterClose => gest_ret.exc # "none"

\* C22: recognize on a session after close() raises nothing: the error of the
\* closed provider is caught and recognize returns ("Error", 0.0), or
\* ("Unknown", 0.0) when the classifier or the scaler is None; it never
\* returns a gesture.
C22_RecognizeAfterCloseGivesSentinel ==
    RecognizedAfterClose =>
        /\ gest_ret.exc = "none"
        /\ IF IsNone(gesture_recognizer.classifier) \/ IsNone(gesture_recognizer.scaler)
           THEN gest_ret = Result("Unknown", 0)
           ELSE gest_ret = Result("Error", 0)

C22_Witness ==
    /\ RecognizedAfterClose /\ model_file = Trained
    /\ gest_call.frame.hands = <<Hand(21)>> /\ gest_call.frame.process = "none"
    /\ gest_ret = Result("Error", 0)

\* The last recognize found a face whose landmark list lacks a consulted
\* index or whose landmarks lack the coordinates.
MalformedFace ==
    /\ FaceRecognized
    /\ "extract_mouth_distance" \in Range(expr_steps)
    /\ \/ expr_call.frame.faces[1].len <= MOUTH_RIGHT
       \/ expr_call.frame.faces[1].kind # "ok"

\* C23: malformed face landmarks give a sentinel label with confidence 0.0,
\* never an expression with a confidence above 0 and never an exception.
C23_MalformedFaceGivesSentinel ==
    MalformedFace =>
        /\ expr_ret.exc = "none"
        /\ expr_ret.label \in {"Unknown", "Error"}
        /\ expr_ret.confidence = 0

(***************************************************************************)
(* Properties of the HTTP boundary.                                        *)
(***************************************************************************)
\* A confidence in [0, 1] (NaN is in no interval).
InUnitInterval(c) == c # NaN /\ 0 <= c /\ c <= 100

NonEmptyTrimmed(s) == Len(strip(s)) > 0

\* A body POST /log_event must accept.
ValidEvent(e) ==
    /\ NonEmptyTrimmed(e.gesture)
    /\ NonEmptyTrimmed(e.expression)
    /\ InUnitInterval(e.confidence)

\* The last request was answered 400 without a call on the store.
RejectedBeforeStore ==
    /\ response.status = 400
    /\ ret.op = "none"
    /\ ret.backend_calls = 0

\* C24: validation precedes the store: an invalid POST /log_event and an
\* invalid GET /events are answered 400 and the store is not called, so every
\* event persisted through the routes has a confidence in [0, 1] and a
\* gesture and an expression that are non-empty after trimming.
C24_ValidationPrecedesStore ==
    /\ (args.op = "POST /log_event" /\ ~ValidEvent(args.event)) => RejectedBeforeStore
    /\ (args.op = "GET /events" /\ (args.limit < 1 \/ args.limit > 1000 \/ args.offset < 0))
           => RejectedBeforeStore
    /\ \A i \in 1..Len(mongo.events) :
           ValidEvent([gesture |-> mongo.events[i].gesture,
                       expression |-> mongo.events[i].expression,
                       confidence |-> mongo.events[i].confidence])

\* This step is a POST /log_event with a valid body.
PostedValid ==
    /\ args'.op = "POST /log_event"
    /\ now' = now
    /\ ValidEvent(args'.event)

\* The response of this step echoes the body, and the document this step
\* stored, if it stored one, carries the response's fields.
EchoesAndStores(timestamp) ==
    /\ response'.status = 200
    /\ response'.id # <<>>
    /\ response'.gesture = args'.event.gesture
    /\ response'.expression = args'.event.expression
    /\ response'.confidence = args'.event.confidence
    /\ response'.timestamp = timestamp
    /\ Len(mongo'.events) > Len(mongo.events) =>
           LET doc == mongo'.events[Len(mongo'.events)]
           IN /\ doc["_id"] = response'.id
              /\ doc.gesture = args'.event.gesture
              /\ doc.expression = args'.event.expression
              /\ doc.confidence = args'.event.confidence
              /\ doc.timestamp = timestamp

\* C25 as claimed: a valid POST /log_event answers 200 with an id and the
\* body's gesture, expression and confidence; the timestamp answered and
\* stored is the body's whenever the body has one (any string), and the time
\* of logging only when it has none.
C25_SuppliedTimestampKept ==
    [][PostedValid =>
          EchoesAndStores(IF args'.event.timestamp.type = "str"
                          THEN args'.event.timestamp.val ELSE isoformat(now))]_vars

\* C25: a valid POST /log_event answers 200 with an id and the body's
\* gesture, expression and confidence; the timestamp answered and stored is
\* the body's when the body has a non-empty one, and the time of logging when
\* the body has none or an empty string.
C25_NonEmptyTimestampKept ==
    [][PostedValid =>
          EchoesAndStores(IF /\ args'.event.timestamp.type = "str"
                             /\ args'.event.timestamp.val # <<>>
                          THEN args'.event.timestamp.val ELSE isoformat(now))]_vars

C25_Witness ==
    /\ args.op = "POST /log_event"
    /\ args.event = Event(S_Yes, S_Happy, 92, PyStr(<<"9">>))
    /\ response.status = 200
    /\ response.timestamp = <<"9">>
    /\ now = 1
    /\ Len(mongo.events) = 2
    /\ mongo.events[2].timestamp = <<"9">>
    /\ mongo.events[1].timestamp = isoformat(0)

\* C26: GET /health answers 200 with status "healthy", the service name and
\* a timestamp, whatever the state of the store and whatever was requested
\* before.
C26_HealthAlwaysHealthy ==
    args.op = "GET /health" =>
        /\ response.route = "health"
        /\ response.status = 200
        /\ response.body = "healthy"
        /\ response.service # ""
        /\ response.timestamp # <<>>

C26_Witness ==
    /\ args.op = "GET /health"
    /\ self.events_collection = "None"
    /\ response.status = 200
    /\ response.body = "healthy"

\* C29: DELETE /events reports success only when clear_events deleted the
\* events: when clear_events returned False (store offline, backend failure)
\* the response does not say success.
C29_SuccessOnlyWhenDeleted ==
    (args.op = "DELETE /events" /\ response.body = "success: All events cleared")
        => (ret.op = "clear_events" /\ ret.ok)

(***************************************************************************)
(* Properties of the frame loop of the UI.                                 *)
(***************************************************************************)
\* cleanup() called close() on every recognizer the constructor built.
RecognizersClosed ==
    /\ ~gesture_recognizer.is_none => "gesture_recognizer.close" \in Range(cleanup_steps)
    /\ ui.facial_recognizer # "None" => "facial_recognizer.close" \in Range(cleanup_steps)

\* C21: whenever run() has returned, close() has been called on every
\* recognizer that was successfully initialized.
C21_ReturnClosesRecognizers ==
    pc = "returned" => RecognizersClosed

\* The loop is at its test and the flag is set: the next step is an
\* iteration.
AtIteration == pc = "while" /\ ui.running

\* The last iteration got no frame from cap.read().
ReadFailed == run_frame.steps = <<"read">> /\ run_frame.exc = "none"

\* A step of the last iteration raised an exception that is not an interrupt.
ErrorInFrame == run_frame.exc \notin {"none", "KeyboardInterrupt"}

\* C27: an exception raised by a step of an iteration does not end the loop,
\* which goes on to the next frame with the flag still set; the loop is left
\* only with the flag cleared, after a failed read, or on a keyboard
\* interrupt, and it is left for cleanup.
C27_ErrorsDoNotEndTheLoop ==
    [][/\ (AtIteration /\ ErrorInFrame') => (pc' = "while" /\ ui'.running)
       /\ (pc = "while" /\ pc' # "while") =>
              /\ pc' = "after_loop"
              /\ \/ ~ui.running
                 \/ ReadFailed'
                 \/ run_frame'.exc = "KeyboardInterrupt"]_vars

C27_Witness ==
    /\ pc = "while" /\ ui.running
    /\ ui.frame_count = 2
    /\ run_frame.exc = "RuntimeError"
    /\ run_frame.steps[Len(run_frame.steps)] = "draw_overlay"

\* The last iteration got a frame.
FrameStarted == Len(run_frame.steps) > 1

\* Every step of the iteration ran on the frame, up to the handling of the key.
FullyProcessed ==
    /\ {"read", "flip", "fps", "imshow", "waitKey"} \subseteq Range(run_frame.steps)
    /\ ~gesture_recognizer.is_none => "gesture_recognizer.recognize" \in Range(run_frame.steps)
    /\ ui.facial_recognizer # "None" => "facial_recognizer.recognize" \in Range(run_frame.steps)
    /\ ui.hud # "None" => "draw_overlay" \in Range(run_frame.steps)
    /\ run_frame.exc \in {"none", "KeyboardInterrupt"} =>
           run_frame.steps[Len(run_frame.steps)] \in {"waitKey", "log_event"}

\* Once the flag is cleared no frame is read: the loop is left.
NoFrameAfterQuit ==
    (pc = "while" /\ ~ui.running) =>
        /\ pc' \in {"while", "after_loop"}
        /\ ui' = ui
        /\ run_frame' = run_frame
        /\ posted' = posted

\* The flag is cleared and the loop has not been left.
Cancelled == pc = "while" /\ ~ui.running

CleanupRan == pc = "returned" /\ cleanup_steps # <<>>

\* C28 as claimed: a started frame is always fully processed, the flag is
\* tested once per iteration, and once the flag is cleared no frame is read
\* and cleanup eventually runs.
C28_NoMidFrameCancellation ==
    /\ [](FrameStarted => (FullyProcessed /\ run_frame.exc = "none"))
    /\ [][NoFrameAfterQuit]_vars
    /\ (Cancelled ~> CleanupRan)

\* C28: a started frame is processed to the end of the iteration unless one
\* of its steps raises, which skips the rest of the iteration (a keyboard
\* interrupt also clears the flag and leaves the loop at once); the flag is
\* tested once per iteration, and once the flag is cleared no frame is read
\* and cleanup eventually runs.
C28_CancellationAtLoopTest ==
    /\ [](FrameStarted => (FullyProcessed \/ run_frame.exc # "none"))
    /\ []((run_frame.exc = "KeyboardInterrupt" /\ pc # "raised") =>
              (~ui.running /\ pc \in {"after_loop", "returned"}))
    /\ [][NoFrameAfterQuit]_vars
    /\ (Cancelled ~> CleanupRan)

C28_Witness ==
    /\ CleanupRan
    /\ run_frame.key = "q"
    /\ run_frame.exc = "none"
    /\ FrameStarted /\ FullyProcessed
    /\ ui.frame_count = 2
    /\ RecognizersClosed
    /\ ~gesture_recognizer.is_none

Sentinels == {"Unknown", "No Hand", "Error"}

\* C30: the loop hands an event to the API only when the health probe of the
\* start succeeded, and never an event whose gesture is a sentinel.
C30_NoSentinelPosted ==
    /\ posted # {} => run_frame.api_available
    /\ \A e \in posted : e.gesture \notin Sentinels

====
